---- MODULE Spec2Model ----
(***************************************************************************)
(* Model of unclutter-directory: the archive/directory structural          *)
(* comparator (comparison/archive_directory_comparator.py), the directory  *)
(* analyzer, the archive readers, the delete-unpacked command and the      *)
(* confirmation handlers used by the organize command.                     *)
(*                                                                         *)
(* Strings are sequences of one-character tokens.  The tokens "U+00E9"     *)
(* and "U+0301" stand for the code points LATIN SMALL LETTER E WITH ACUTE  *)
(* and COMBINING ACUTE ACCENT; every other token is the ASCII character    *)
(* it shows.  A message (an element of `differences`) is the sequence of   *)
(* the literal fragments of the f-string and the tokens of the values      *)
(* formatted into it.                                                      *)
(***************************************************************************)
EXTENDS Integers, Sequences, FiniteSets, TLC

VARIABLES
    archive_path,      \* name of the archive file (last path component)
    archive_content,   \* what the archive file holds on disk
    directory,         \* the directory tree compared against
    include_hidden,    \* ArchiveDirectoryComparator.include_hidden
    hash_seed,         \* per-process string hash seed (set iteration order)
    result,            \* ComparisonResult of the last comparison, or NoResult
    pc,                \* position of the caller
    \* DeleteUnpackedCommand.execute
    potential_pairs,       \* the pairs find_potential_duplicates returned
    confirmation_handler,  \* the handler the command was built with
    responses,             \* InteractiveConfirmationHandler._responses
    pair_index,            \* position of the loop over potential_pairs
    all_results,           \* all_results
    deleted_count,         \* deleted_count
    compared,              \* history: the result of each pair compared so far
    asked,                 \* history: pairs should_execute was called for
    prompted,              \* history: pairs the user was prompted for, in order
    confirmed,             \* history: pairs should_execute returned True for
    removed,               \* history: pairs whose directory rmtree was called on
    logged,                \* history: what execute reported
    summary,               \* the summary _print_summary obtained, or NoResult
    \* FileProcessor.process_files
    config,                \* the OrganizeConfig of the run
    file_paths,            \* the files collected for processing
    file_index,            \* position of the loop over file_paths
    stats,                 \* stats
    executed,              \* history: files execute_action was invoked for
    existing,              \* the names of the files on disk
    final_paths,           \* history: what execute_action returned, by file
    \* ArchiveDirectoryComparator.find_potential_duplicates
    target_dir,            \* the tree scanned
    potential_duplicates,  \* the list returned, or NoResult
    \* the callers of one InteractiveConfirmationHandler
    calls,                 \* history: the should_execute calls made so far
    \* File.__init__
    file_date_tuple,       \* the date tuple the File is constructed with
    file_date              \* File.date, as a calendar date, or NoResult

compare_vars == <<archive_path, archive_content, directory, result>>

execute_vars ==
    <<potential_pairs, confirmation_handler, responses, pair_index,
      all_results, deleted_count, compared, asked, prompted, confirmed,
      removed, logged, summary>>

organize_vars ==
    <<config, file_paths, file_index, stats, executed, existing, final_paths>>

scan_vars == <<target_dir, potential_duplicates>>

confirm_vars == <<calls>>

file_vars == <<file_date_tuple, file_date>>

vars ==
    <<compare_vars, include_hidden, hash_seed, pc, execute_vars, organize_vars,
      scan_vars, confirm_vars, file_vars>>

----------------------------------------------------------------------------
(* Bounds *)

MaxMembers == 2

MaxPairs == 2

MaxFiles == 2

----------------------------------------------------------------------------
(* Characters and strings *)

CodePoint(c) ==
    CASE c = "." -> 46
      [] c = "/" -> 47
      [] c = "1" -> 49
      [] c = "2" -> 50
      [] c = "7" -> 55
      [] c = "A" -> 65
      [] c = "I" -> 73
      [] c = "P" -> 80
      [] c = "R" -> 82
      [] c = "Z" -> 90
      [] c = "_" -> 95
      [] c = "a" -> 97
      [] c = "c" -> 99
      [] c = "e" -> 101
      [] c = "g" -> 103
      [] c = "i" -> 105
      [] c = "p" -> 112
      [] c = "r" -> 114
      [] c = "t" -> 116
      [] c = "x" -> 120
      [] c = "z" -> 122
      [] c = "U+00C1" -> 193
      [] c = "U+00CD" -> 205
      [] c = "U+00E1" -> 225
      [] c = "U+00E9" -> 233
      [] c = "U+00ED" -> 237
      [] c = "U+0107" -> 263
      [] c = "U+0154" -> 340
      [] c = "U+0155" -> 341
      [] c = "U+0179" -> 377
      [] c = "U+017A" -> 378
      [] c = "U+01F5" -> 501
      [] c = "U+0301" -> 769
      [] c = "U+1E54" -> 7764
      [] c = "U+1E55" -> 7765

\* str.__lt__: lexicographic order by code point
RECURSIVE StrLess(_, _)
StrLess(a, b) ==
    IF b = <<>> THEN FALSE
    ELSE IF a = <<>> THEN TRUE
    ELSE IF a[1] = b[1] THEN StrLess(Tail(a), Tail(b))
    ELSE CodePoint(a[1]) < CodePoint(b[1])

\* str.startswith
startswith(s, prefix) ==
    /\ Len(prefix) <= Len(s)
    /\ SubSeq(s, 1, Len(prefix)) = prefix

\* str.endswith
endswith(s, suffix) ==
    /\ Len(suffix) <= Len(s)
    /\ SubSeq(s, Len(s) - Len(suffix) + 1, Len(s)) = suffix

\* sorted(set of str)
RECURSIVE sorted(_)
sorted(S) ==
    IF S = {} THEN <<>>
    ELSE LET m == CHOOSE x \in S : \A y \in S : y = x \/ StrLess(x, y)
         IN  <<m>> \o sorted(S \ {m})

\* the primary composite of a starter of CodePoint's alphabet with U+0301
\* (UnicodeData canonical compositions), None when the pair does not compose
acute_composite(c) ==
    CASE c = "A" -> "U+00C1"
      [] c = "I" -> "U+00CD"
      [] c = "P" -> "U+1E54"
      [] c = "R" -> "U+0154"
      [] c = "Z" -> "U+0179"
      [] c = "a" -> "U+00E1"
      [] c = "c" -> "U+0107"
      [] c = "e" -> "U+00E9"
      [] c = "g" -> "U+01F5"
      [] c = "i" -> "U+00ED"
      [] c = "p" -> "U+1E55"
      [] c = "r" -> "U+0155"
      [] c = "z" -> "U+017A"
      [] OTHER -> "none"

\* unicodedata.normalize("NFC", text) over the alphabet of CodePoint: a
\* letter that has a precomposed acute form composes with the U+0301 that
\* follows it; a precomposed letter, a digit, ".", "/", "_", "t" and "x"
\* take no U+0301, and the precomposed letters stay as they are
RECURSIVE normalize_unicode(_)
normalize_unicode(text) ==
    IF text = <<>> THEN <<>>
    ELSE IF Len(text) >= 2 /\ text[2] = "U+0301" /\ acute_composite(text[1]) # "none"
         THEN <<acute_composite(text[1])>> \o normalize_unicode(SubSeq(text, 3, Len(text)))
    ELSE <<text[1]>> \o normalize_unicode(Tail(text))

----------------------------------------------------------------------------
(* entities/file.py: File.  `name`, `size` and `date` are the fields the   *)
(* comparator reads or copies.                                             *)

File(name, date, size) == [name |-> name, date |-> date, size |-> size]

RECURSIVE Factorial(_)
Factorial(n) == IF n <= 1 THEN 1 ELSE n * Factorial(n - 1)

\* the arrangement of seq with the given rank among its Len(seq)!
\* arrangements (rank 0 keeps seq, the last rank reverses it)
RECURSIVE arrangement(_, _)
arrangement(seq, rank) ==
    IF seq = <<>> THEN <<>>
    ELSE LET rest == Factorial(Len(seq) - 1)
             k == (rank \div rest) + 1
         IN  <<seq[k]>>
             \o arrangement(SubSeq(seq, 1, k - 1) \o SubSeq(seq, k + 1, Len(seq)),
                            rank % rest)

\* iteration order of a set of str: CPython orders a set by the hashes of its
\* elements, which the per-process hash seed fixes; over the seeds every
\* arrangement of the set occurs, and one seed always gives the same one
set_iteration(S, seed) ==
    arrangement(sorted(S), seed % Factorial(Cardinality(S)))

----------------------------------------------------------------------------
(* comparison/archive_directory_comparator.py *)

None == [none |-> TRUE]

strip_directory_prefix_raw_length(file, expected_dir_name) ==
    LET normalized_name == normalize_unicode(file.name)
        expected_prefix == normalize_unicode(expected_dir_name) \o <<"/">>
    IN  IF normalized_name = expected_prefix THEN None
        ELSE IF startswith(normalized_name, expected_prefix)
        THEN File(SubSeq(normalized_name, Len(expected_dir_name) + 2,
                         Len(normalized_name)),
                  file.date, file.size)
        ELSE file

\* ArchiveDirectoryComparator._strip_directory_prefix
strip_directory_prefix(file, expected_dir_name) ==
    LET normalized_name == normalize_unicode(file.name)
        expected_prefix == normalize_unicode(expected_dir_name) \o <<"/">>
    IN  IF normalized_name = expected_prefix THEN None
        ELSE IF startswith(normalized_name, expected_prefix)
        THEN File(SubSeq(normalized_name, Len(expected_prefix) + 1,
                         Len(normalized_name)),
                  file.date, file.size)
        ELSE file

\* the dict comprehension {_normalize_unicode(file.name): file for file in files}:
\* a later file replaces an earlier one with the same key
normalized_files(files) ==
    LET keys == {normalize_unicode(files[i].name) : i \in 1..Len(files)}
        last(k) == CHOOSE i \in 1..Len(files) :
                      /\ normalize_unicode(files[i].name) = k
                      /\ \A j \in 1..Len(files) :
                            normalize_unicode(files[j].name) = k => j <= i
    IN  [k \in keys |-> files[last(k)]]

\* normalized_archive_files = {...for file in archive_files}
normalized_archive_files_of(archive_files) == normalized_files(archive_files)

normalized_directory_files_raw(directory_files) ==
    LET keys == {directory_files[i].name : i \in 1..Len(directory_files)}
    IN  [k \in keys |->
            directory_files[CHOOSE i \in 1..Len(directory_files) :
                /\ directory_files[i].name = k
                /\ \A j \in 1..Len(directory_files) :
                      directory_files[j].name = k => j <= i]]

\* normalized_directory_files = {...for file in directory_files}
normalized_directory_files_of(directory_files) == normalized_files(directory_files)

\* missing_in_directory = archive_paths - directory_paths
missing_in_directory_of(archive_paths, directory_paths) ==
    archive_paths \ directory_paths

extra_in_directory_swapped(archive_paths, directory_paths) ==
    archive_paths \ directory_paths

\* extra_in_directory = directory_paths - archive_paths
extra_in_directory_of(archive_paths, directory_paths) ==
    directory_paths \ archive_paths

missing_message(path) == <<"Missing in directory: ">> \o path

extra_message(path) == <<"Extra in directory: ">> \o path

size_mismatch_message(path, archive_size, directory_size) ==
    <<"Size mismatch for ">> \o path
    \o <<": archive=", ToString(archive_size),
         ", directory=", ToString(directory_size)>>

RECURSIVE size_differences_larger_only(_, _, _)
size_differences_larger_only(order, archive_map, directory_map) ==
    IF order = <<>> THEN <<>>
    ELSE LET normalized_path == order[1]
             archive_file == archive_map[normalized_path]
             directory_file == directory_map[normalized_path]
         IN  (IF archive_file.size > directory_file.size
              THEN <<size_mismatch_message(normalized_path, archive_file.size,
                                           directory_file.size)>>
              ELSE <<>>)
             \o size_differences_larger_only(Tail(order), archive_map,
                                             directory_map)

\* the loop over common_files, in the set's iteration order
RECURSIVE size_differences(_, _, _)
size_differences(order, archive_map, directory_map) ==
    IF order = <<>> THEN <<>>
    ELSE LET normalized_path == order[1]
             archive_file == archive_map[normalized_path]
             directory_file == directory_map[normalized_path]
         IN  (IF archive_file.size # directory_file.size
              THEN <<size_mismatch_message(normalized_path, archive_file.size,
                                           directory_file.size)>>
              ELSE <<>>)
             \o size_differences(Tail(order), archive_map, directory_map)

compare_file_structures_with_dates(archive_files, directory_files, seed) ==
    LET normalized_archive_files == normalized_archive_files_of(archive_files)
        normalized_directory_files ==
            normalized_directory_files_of(directory_files)
        archive_paths == DOMAIN normalized_archive_files
        directory_paths == DOMAIN normalized_directory_files
        common_files == archive_paths \cap directory_paths
        missing == sorted(archive_paths \ directory_paths)
        extra == sorted(directory_paths \ archive_paths)
        stale == sorted({path \in common_files :
                            normalized_archive_files[path].date
                            > normalized_directory_files[path].date})
    IN  [i \in 1..Len(missing) |-> missing_message(missing[i])]
        \o [i \in 1..Len(extra) |-> extra_message(extra[i])]
        \o size_differences(set_iteration(common_files, seed),
                            normalized_archive_files,
                            normalized_directory_files)
        \o [i \in 1..Len(stale) |-> <<"Date mismatch for ">> \o stale[i]]

\* ArchiveDirectoryComparator._compare_file_structures
compare_file_structures(archive_files, directory_files, seed) ==
    LET normalized_archive_files == normalized_archive_files_of(archive_files)
        normalized_directory_files ==
            normalized_directory_files_of(directory_files)
        archive_paths == DOMAIN normalized_archive_files
        directory_paths == DOMAIN normalized_directory_files
        missing_in_directory ==
            missing_in_directory_of(archive_paths, directory_paths)
        extra_in_directory ==
            extra_in_directory_of(archive_paths, directory_paths)
        common_files == archive_paths \cap directory_paths
        missing == sorted(missing_in_directory)
        extra == sorted(extra_in_directory)
    IN  [i \in 1..Len(missing) |-> missing_message(missing[i])]
        \o [i \in 1..Len(extra) |-> extra_message(extra[i])]
        \o size_differences(set_iteration(common_files, seed),
                            normalized_archive_files,
                            normalized_directory_files)

----------------------------------------------------------------------------
(* pathlib: the archive is named by its last path component *)

\* str.rfind("."), 1-based; 0 when there is no dot
RECURSIVE rfind_dot(_, _)
rfind_dot(name, i) ==
    IF i = 0 THEN 0
    ELSE IF name[i] = "." THEN i
    ELSE rfind_dot(name, i - 1)

\* PurePath.suffix
suffix(name) ==
    LET i == rfind_dot(name, Len(name))
    IN  IF 1 < i /\ i < Len(name) THEN SubSeq(name, i, Len(name)) ELSE <<>>

\* PurePath.stem
stem(name) ==
    LET i == rfind_dot(name, Len(name))
    IN  IF 1 < i /\ i < Len(name) THEN SubSeq(name, 1, i - 1) ELSE name

\* str.lower
lower(s) ==
    [i \in 1..Len(s) |->
        CASE s[i] = "Z" -> "z"
          [] s[i] = "I" -> "i"
          [] s[i] = "P" -> "p"
          [] s[i] = "R" -> "r"
          [] s[i] = "A" -> "a"
          [] s[i] = "U+00C1" -> "U+00E1"
          [] s[i] = "U+00CD" -> "U+00ED"
          [] s[i] = "U+0154" -> "U+0155"
          [] s[i] = "U+0179" -> "U+017A"
          [] s[i] = "U+1E54" -> "U+1E55"
          [] OTHER -> s[i]]

----------------------------------------------------------------------------
(* entities/compressed_archive.py *)

\* a ZipHandler.can_handle that compares the name as it is spelled
ZipHandler_can_handle_case_sensitive(name) == endswith(name, <<".", "z", "i", "p">>)

\* ZipHandler.can_handle
ZipHandler_can_handle(name) == endswith(lower(name), <<".", "z", "i", "p">>)

\* RarHandler.can_handle
RarHandler_can_handle(name) == endswith(lower(name), <<".", "r", "a", "r">>)

\* SevenZipHandler.can_handle
SevenZipHandler_can_handle(name) == endswith(lower(name), <<".", "7", "z">>)

\* ArchiveHandlerChain.get_archive_handler over the default handlers,
\* which is all get_archive_manager uses
get_archive_manager(name) ==
    IF ZipHandler_can_handle(name) THEN "ZipArchive"
    ELSE IF RarHandler_can_handle(name) THEN "RarArchive"
    ELSE IF SevenZipHandler_can_handle(name) THEN "SevenZipArchive"
    ELSE "None"

Raised(e) == [raised |-> e]

Returned(v) == [returned |-> v]

IsRaised(r) == "raised" \in DOMAIN r

\* zipf.getinfo(name) / rarf.getinfo(name): the last entry stored under name
getinfo(members, name) ==
    members[CHOOSE i \in 1..Len(members) :
               /\ members[i].name = name
               /\ \A j \in 1..Len(members) : members[j].name = name => j <= i]

\* ZipArchive.get_files / RarArchive.get_files / SevenZipArchive.get_files.
\* content.kind: "ok" (a readable archive holding content.members),
\* "corrupt" (BadZipFile, rarfile.Error, Bad7zFile), "unreadable" (the open
\* fails with an OSError)
CompressedArchive_get_files(manager, content) ==
    IF content.kind = "corrupt" THEN Returned(<<>>)
    ELSE IF content.kind = "unreadable"
    THEN IF manager = "SevenZipArchive" THEN Returned(<<>>)
         ELSE Raised("PermissionError")
    ELSE IF manager = "SevenZipArchive" THEN Returned(content.members)
    ELSE Returned([i \in 1..Len(content.members) |->
                     LET name == content.members[i].name
                         info == getinfo(content.members, name)
                     IN  File(name, info.date, info.size)])

----------------------------------------------------------------------------
(* comparison/directory_analyzer.py.  A directory is                       *)
(* [files |-> <<[name, size, date], ...>>, dirs |-> <<[name, tree], ...>>] *)
(* in the order os.scandir lists it.                                       *)

files_in_unfiltered(files, relative_to, hidden) ==
    [i \in 1..Len(files) |->
        File(relative_to \o files[i].name, files[i].date, files[i].size)]

\* the files os.walk reports for one directory, as File objects named by
\* their path relative to the scanned root
files_in(files, relative_to, hidden) ==
    LET kept == SelectSeq(files, LAMBDA f : hidden \/ f.name[1] # ".")
    IN  [i \in 1..Len(kept) |->
            File(relative_to \o kept[i].name, kept[i].date, kept[i].size)]

\* os.walk(directory_path), top-down, with dirs[:] pruned of hidden names
RECURSIVE walk(_, _, _)
RECURSIVE walk_dirs(_, _, _)
walk(tree, relative_to, hidden) ==
    files_in(tree.files, relative_to, hidden)
    \o walk_dirs(SelectSeq(tree.dirs, LAMBDA d : hidden \/ d.name[1] # "."),
                 relative_to, hidden)
walk_dirs(dirs, relative_to, hidden) ==
    IF dirs = <<>> THEN <<>>
    ELSE walk(dirs[1].tree, relative_to \o dirs[1].name \o <<"/">>, hidden)
         \o walk_dirs(Tail(dirs), relative_to, hidden)

\* directory_path.is_dir().  directory_path.kind: "dir" (a directory that
\* can be listed, holding directory_path.tree), "notdir" (a regular file,
\* or nothing at that path), "unlistable" (a directory the process may not
\* list), "denied" (a path below a directory the process may not search,
\* so that stat fails with EACCES)
is_dir(directory_path) ==
    IF directory_path.kind = "denied" THEN Raised("PermissionError")
    ELSE Returned(directory_path.kind \in {"dir", "unlistable"})

\* DirectoryAnalyzer.get_files.  os.walk ignores the error of listing its
\* top directory and yields nothing.
DirectoryAnalyzer_get_files(directory_path, hidden) ==
    IF IsRaised(is_dir(directory_path)) THEN is_dir(directory_path)
    ELSE IF ~is_dir(directory_path).returned THEN Returned(<<>>)
    ELSE IF directory_path.kind = "unlistable" THEN Returned(<<>>)
    ELSE Returned(walk(directory_path.tree, <<>>, hidden))

----------------------------------------------------------------------------
(* comparison/archive_directory_comparator.py: the comparison *)

ComparisonResult(identical, archive_files, directory_files, differences) ==
    [identical |-> identical,
     archive_files |-> archive_files,
     directory_files |-> directory_files,
     differences |-> differences]

unsupported_message_without_suffix(archive_suffix) ==
    <<"Unsupported archive format: ">>

unsupported_message(archive_suffix) ==
    <<"Unsupported archive format: ">> \o archive_suffix

failed_message(e) == <<"Comparison failed: ", e>>

\* the result of the `except Exception` clause
comparison_failed(e) ==
    ComparisonResult(FALSE, <<>>, <<>>, <<failed_message(e)>>)

\* processed_archive_files: the members _strip_directory_prefix keeps
RECURSIVE processed_archive_files_of(_, _)
processed_archive_files_of(archive_files, expected_dir_name) ==
    IF archive_files = <<>> THEN <<>>
    ELSE LET processed_file ==
                 strip_directory_prefix(archive_files[1], expected_dir_name)
         IN  (IF processed_file # None THEN <<processed_file>> ELSE <<>>)
             \o processed_archive_files_of(Tail(archive_files),
                                           expected_dir_name)

original_archive_has_directories_of(archive_files, expected_dir_name) ==
    \E i \in 1..Len(archive_files) :
        /\ endswith(archive_files[i].name, <<"/">>)
        /\ ~(archive_files[i].name = expected_dir_name \o <<"/">>)

identical_of_off_by_one(differences) == Len(differences) <= 1

\* identical = len(differences) == 0
identical_of(differences) == Len(differences) = 0

\* the body of the try block once both listings are read
compare_listings(archive_files, all_directory_files, expected_dir_name, seed) ==
    LET processed_archive_files ==
            processed_archive_files_of(archive_files, expected_dir_name)
        original_archive_has_directories ==
            original_archive_has_directories_of(archive_files,
                                                expected_dir_name)
        directory_files ==
            IF ~original_archive_has_directories
            THEN SelectSeq(all_directory_files,
                           LAMBDA f : ~endswith(f.name, <<"/">>))
            ELSE all_directory_files
        differences ==
            compare_file_structures(processed_archive_files, directory_files,
                                    seed)
        identical == identical_of(differences)
    IN  ComparisonResult(identical, processed_archive_files, directory_files,
                         differences)

\* ArchiveDirectoryComparator.compare_archive_and_directory.  File.from_path
\* stats the archive, so an absent archive raises inside the try block.
compare_archive_and_directory(name, content, directory_path, hidden, seed) ==
    IF content.kind = "absent" THEN comparison_failed("FileNotFoundError")
    ELSE LET archive_manager == get_archive_manager(name)
         IN  IF archive_manager = "None"
             THEN ComparisonResult(FALSE, <<>>, <<>>,
                                   <<unsupported_message(suffix(name))>>)
             ELSE LET read ==
                          CompressedArchive_get_files(archive_manager, content)
                      listing ==
                          DirectoryAnalyzer_get_files(directory_path, hidden)
                  IN  IF IsRaised(read) THEN comparison_failed(read.raised)
                      ELSE IF IsRaised(listing)
                      THEN comparison_failed(listing.raised)
                      ELSE compare_listings(read.returned, listing.returned,
                                            stem(name), seed)

----------------------------------------------------------------------------
(* get_comparison_summary.  A Python float is an IEEE 754 double: a      *)
(* significand of MANT_DIG bits, the first of them 1, written most        *)
(* significant bit first, and the exponent of that first bit; the value   *)
(* is significand * 2^(exponent - MANT_DIG + 1).  0.0 has no bits.        *)

\* sys.float_info.mant_dig
MANT_DIG == 53

Float(significand, exponent) ==
    [significand |-> significand, exponent |-> exponent]

ZeroFloat == Float(<<>>, 0)

\* bits plus one, one bit longer when every bit was 1
RECURSIVE increment(_)
increment(bits) ==
    IF bits = <<>> THEN <<1>>
    ELSE IF bits[Len(bits)] = 0
    THEN SubSeq(bits, 1, Len(bits) - 1) \o <<1>>
    ELSE increment(SubSeq(bits, 1, Len(bits) - 1)) \o <<0>>

\* round to nearest, ties to even: `dropped` tells how the part that does
\* not fit compares with half a unit of the last bit kept
round_to_nearest(bits, exponent, dropped) ==
    LET up == \/ dropped = "above"
              \/ dropped = "half" /\ bits[Len(bits)] = 1
        kept == IF up THEN increment(bits) ELSE bits
    IN  IF Len(kept) > MANT_DIG
        THEN Float(SubSeq(kept, 1, MANT_DIG), exponent + 1)
        ELSE Float(kept, exponent)

\* long division: the next `count` bits of remainder / divisor, where
\* remainder < divisor, and how the rest compares with half a unit
RECURSIVE quotient_bits(_, _, _, _)
quotient_bits(remainder, divisor, count, bits) ==
    IF count = 0
    THEN [bits |-> bits,
          dropped |-> IF 2 * remainder > divisor THEN "above"
                      ELSE IF 2 * remainder = divisor THEN "half"
                      ELSE "below"]
    ELSE IF 2 * remainder >= divisor
    THEN quotient_bits(2 * remainder - divisor, divisor, count - 1,
                       Append(bits, 1))
    ELSE quotient_bits(2 * remainder, divisor, count - 1, Append(bits, 0))

\* a / b scaled by a power of two so that b <= a < 2 * b
RECURSIVE scaled(_, _, _)
scaled(a, b, exponent) ==
    IF a >= 2 * b THEN scaled(a, 2 * b, exponent + 1)
    ELSE IF a < b THEN scaled(2 * a, b, exponent - 1)
    ELSE [a |-> a, b |-> b, exponent |-> exponent]

\* a / b of two ints, a >= 0 and b > 0: the double nearest the quotient
true_divide(a, b) ==
    IF a = 0 THEN ZeroFloat
    ELSE LET n == scaled(a, b, 0)
             q == quotient_bits(n.a - n.b, n.b, MANT_DIG - 1, <<1>>)
         IN  round_to_nearest(q.bits, n.exponent, q.dropped)

\* the binary digits of a natural number
RECURSIVE binary(_)
binary(n) == IF n = 0 THEN <<>> ELSE binary(n \div 2) \o <<n % 2>>

\* the digits of bits * k + carry, k a small natural number
RECURSIVE times(_, _, _)
times(bits, k, carry) ==
    IF bits = <<>> THEN binary(carry)
    ELSE IF (bits[Len(bits)] * k + carry) % 2 = 1
    THEN times(SubSeq(bits, 1, Len(bits) - 1), k,
               (bits[Len(bits)] * k + carry) \div 2) \o <<1>>
    ELSE times(SubSeq(bits, 1, Len(bits) - 1), k,
               (bits[Len(bits)] * k + carry) \div 2) \o <<0>>

\* x * k of a float and a positive int with few digits: the double nearest
\* the product
multiply(x, k) ==
    IF x = ZeroFloat THEN ZeroFloat
    ELSE LET product == times(x.significand, k, 0)
             extra == Len(product) - MANT_DIG
             rest == SubSeq(product, MANT_DIG + 1, Len(product))
             dropped ==
                 IF rest = <<>> \/ rest[1] = 0 THEN "below"
                 ELSE IF \E i \in 2..Len(rest) : rest[i] = 1 THEN "above"
                 ELSE "half"
         IN  round_to_nearest(SubSeq(product, 1, MANT_DIG),
                              x.exponent + extra, dropped)

\* sum(1 for r in results if r.identical)
RECURSIVE count_identical(_)
count_identical(results) ==
    IF results = <<>> THEN 0
    ELSE (IF Head(results).identical THEN 1 ELSE 0)
         + count_identical(Tail(results))

\* a summary whose percentage is the fraction identical / total
get_comparison_summary_as_fraction(results) ==
    LET total == Len(results)
        identical == count_identical(results)
    IN  [total_comparisons |-> total,
         identical |-> identical,
         different |-> total - identical,
         identical_percentage |->
             IF total > 0 THEN true_divide(identical, total) ELSE 0]

\* ArchiveDirectoryComparator.get_comparison_summary
get_comparison_summary(results) ==
    LET total == Len(results)
        identical == count_identical(results)
        different == total - identical
    IN  [total_comparisons |-> total,
         identical |-> identical,
         different |-> different,
         identical_percentage |->
             IF total > 0 THEN multiply(true_divide(identical, total), 100)
             ELSE 0]

----------------------------------------------------------------------------
(* Inputs of a comparison *)

E_ACUTE == <<"U+00E9">>

E_COMBINING == <<"e", "U+0301">>

ArchiveNames ==
    { <<"x", ".", "z", "i", "p">>,
      E_COMBINING \o <<".", "z", "i", "p">>,
      <<"x", ".", "r", "a", "r">>,
      <<"x", ".", "7", "z">>,
      <<"x", ".", "t", "a", "r", ".", "g", "z">>,
      <<"x", ".", "Z", "i", "P">>,
      <<"x", ".", "R", "A", "R">>,
      <<"x", ".", "7", "Z">>,
      <<"z", "i", "p">> }

\* the names whose archives are compared with every content
LowerCaseZipNames ==
    { <<"x", ".", "z", "i", "p">>, E_COMBINING \o <<".", "z", "i", "p">> }

\* entries an archive may hold: files, the root entry of a compressed
\* folder, members stored under that folder, both spellings of an accent
Members ==
    { File(<<"x">>, 1, 5),
      File(<<"x", "/">>, 1, 0),
      File(<<"x", "/", "x">>, 1, 5),
      File(E_ACUTE, 1, 5),
      File(E_COMBINING, 1, 7),
      File(E_ACUTE \o <<"/">>, 1, 0),
      File(E_COMBINING \o <<"/", "x">>, 1, 5),
      File(<<".", "x">>, 1, 5) }

RECURSIVE SeqsUpTo(_, _)
SeqsUpTo(S, n) ==
    IF n = 0 THEN {<<>>}
    ELSE LET shorter == SeqsUpTo(S, n - 1)
         IN  shorter \cup {Append(q, m) : q \in shorter, m \in S}

ArchiveContents ==
    {[kind |-> "ok", members |-> ms] : ms \in SeqsUpTo(Members, MaxMembers)}
    \cup {[kind |-> "corrupt"], [kind |-> "unreadable"], [kind |-> "absent"]}

\* the entries an archive of this name is given: x.zip without the members
\* of a folder named by the accent, the accented name without the nested
\* and the hidden member of x.zip
MembersOf(name) ==
    IF name = <<"x", ".", "z", "i", "p">>
    THEN Members \ {File(E_ACUTE \o <<"/">>, 1, 0),
                    File(E_COMBINING \o <<"/", "x">>, 1, 5)}
    ELSE IF name = E_COMBINING \o <<".", "z", "i", "p">>
    THEN Members \ {File(<<"x", "/", "x">>, 1, 5), File(<<".", "x">>, 1, 5)}
    ELSE Members

\* the archives compared: the lower-case ZIP names with every content of
\* their entries, the other names, whose readers list a readable archive
\* the same way, with the contents of at most one member
ArchiveInputs ==
    {input \in ArchiveNames \X ArchiveContents :
        \/ input[2].kind # "ok"
        \/ /\ \A i \in 1..Len(input[2].members) :
                  input[2].members[i] \in MembersOf(input[1])
           /\ \/ input[1] \in LowerCaseZipNames
              \/ Len(input[2].members) <= 1}

Leaf(files) == [files |-> files, dirs |-> <<>>]

RootFilesX == { <<>>, <<File(<<"x">>, 2, 5)>>, <<File(<<"x">>, 2, 7)>> }

RootFilesE ==
    { <<>>, <<File(E_ACUTE, 2, 5)>>, <<File(E_ACUTE, 2, 7)>>,
      <<File(E_COMBINING, 2, 5)>>,
      <<File(E_ACUTE, 2, 7), File(E_COMBINING, 2, 5)>> }

\* a hidden file, an empty subdirectory, a subdirectory with a file, a
\* hidden subdirectory with a file
Extras ==
    { [files |-> <<>>, dirs |-> <<>>],
      [files |-> <<File(<<".", "x">>, 2, 5)>>, dirs |-> <<>>],
      [files |-> <<>>, dirs |-> <<[name |-> <<"x">>, tree |-> Leaf(<<>>)]>>],
      [files |-> <<>>,
       dirs |-> <<[name |-> <<"x">>,
                   tree |-> Leaf(<<File(<<"x">>, 2, 5)>>)]>>],
      [files |-> <<>>,
       dirs |-> <<[name |-> <<".", "x">>,
                   tree |-> Leaf(<<File(<<"x">>, 2, 5)>>)]>>] }

\* every order of a listing: os.scandir yields the entries of a directory
\* in the order the file system keeps them
Arrangements(seq) == {arrangement(seq, rank) : rank \in 0..(Factorial(Len(seq)) - 1)}

\* the directories compared: at most two of the three groups at a time
DirectoryContents ==
    {c \in RootFilesX \X RootFilesE \X Extras :
        \/ c[1] = <<>>
        \/ c[2] = <<>>
        \/ c[3] = [files |-> <<>>, dirs |-> <<>>]}

DirectoryTrees ==
    UNION {{[files |-> files, dirs |-> c[3].dirs] :
                files \in Arrangements(c[3].files \o c[1] \o c[2])} :
           c \in DirectoryContents}

Directories ==
    {[kind |-> "dir", tree |-> tree] : tree \in DirectoryTrees}
    \cup {[kind |-> "notdir"], [kind |-> "unlistable"], [kind |-> "denied"]}

\* one seed for each arrangement of the largest set of common names
HashSeeds == 0..(Factorial(MaxMembers) - 1)

NoResult == [none |-> TRUE]

----------------------------------------------------------------------------
(* execution/confirmation.py.  An input is the line the user types at the  *)
(* prompt ("" for an empty line), or the exception input() raises.         *)

DryRunConfirmationHandler == [kind |-> "DryRun"]

AutomaticConfirmationHandler(always_confirm) ==
    [kind |-> "Automatic", always_confirm |-> always_confirm]

InteractiveConfirmationHandler == [kind |-> "Interactive"]

Inputs == {"y", "n", "a", "never", "", "EOFError", "KeyboardInterrupt"}

Call(outcome, cache, shown) ==
    [outcome |-> outcome, responses |-> cache, prompted |-> shown]

\* a lookup that takes the answer stored under any key
cached_response_any_key(cache, cache_key) ==
    IF cache_key # "" /\ DOMAIN cache # {}
    THEN cache[CHOOSE k \in DOMAIN cache : TRUE]
    ELSE ""

\* the lookup of a stored "a" or "never" answer
cached_response(cache, cache_key) ==
    IF cache_key # "" /\ cache_key \in DOMAIN cache THEN cache[cache_key]
    ELSE ""

\* a should_execute that stores every answer given under a key
Interactive_should_execute_storing_all(cache, cache_key, action_type, input) ==
    IF action_type # "delete" THEN Call(Returned(TRUE), cache, FALSE)
    ELSE IF cached_response(cache, cache_key) \in {"a", "y"}
    THEN Call(Returned(TRUE), cache, FALSE)
    ELSE IF cached_response(cache, cache_key) \in {"never", "n"}
    THEN Call(Returned(FALSE), cache, FALSE)
    ELSE IF input \in {"EOFError", "KeyboardInterrupt"}
    THEN Call(Raised(input), cache, TRUE)
    ELSE LET response == IF input = "" THEN "y" ELSE input
             stored ==
                 IF cache_key # ""
                 THEN [k \in DOMAIN cache \cup {cache_key} |->
                          IF k = cache_key THEN response ELSE cache[k]]
                 ELSE cache
         IN  Call(Returned(response \in {"y", "a"}), stored, TRUE)

\* InteractiveConfirmationHandler.should_execute
Interactive_should_execute(cache, cache_key, action_type, input) ==
    IF action_type # "delete" THEN Call(Returned(TRUE), cache, FALSE)
    ELSE IF cached_response(cache, cache_key) = "a"
    THEN Call(Returned(TRUE), cache, FALSE)
    ELSE IF cached_response(cache, cache_key) = "never"
    THEN Call(Returned(FALSE), cache, FALSE)
    ELSE IF input \in {"EOFError", "KeyboardInterrupt"}
    THEN Call(Raised(input), cache, TRUE)
    ELSE LET response == IF input = "" THEN "y" ELSE input
             stored ==
                 IF response \in {"a", "never"} /\ cache_key # ""
                 THEN [k \in DOMAIN cache \cup {cache_key} |->
                          IF k = cache_key THEN response ELSE cache[k]]
                 ELSE cache
         IN  Call(Returned(response \in {"y", "a"}), stored, TRUE)

\* AutomaticConfirmationHandler.should_execute
Automatic_should_execute(always_confirm, action_type) ==
    IF action_type # "delete" THEN TRUE ELSE always_confirm

\* ConfirmationHandler.should_execute, by the class of the handler
should_execute(handler, cache, cache_key, action_type, input) ==
    IF handler.kind = "DryRun" THEN Call(Returned(FALSE), cache, FALSE)
    ELSE IF handler.kind = "Automatic"
    THEN Call(Returned(Automatic_should_execute(handler.always_confirm,
                                                action_type)),
              cache, FALSE)
    ELSE Interactive_should_execute(cache, cache_key, action_type, input)

\* a finished call: its arguments, the line read at the prompt ("none"
\* when no prompt was shown) and what the call returned or raised
CallRecord(cache_key, action_type, input, call) ==
    [cache_key |-> cache_key, action_type |-> action_type,
     input |-> IF call.prompted THEN input ELSE "none",
     outcome |-> call.outcome, prompted |-> call.prompted]

----------------------------------------------------------------------------
(* config/organize_config.py and factories/component_factory.py *)

OrganizeConfig(dry_run, always_delete, never_delete) ==
    [class |-> "OrganizeConfig", dry_run |-> dry_run,
     always_delete |-> always_delete, never_delete |-> never_delete]

\* DeleteUnpackedConfig.__init__ (config/delete_unpacked_config.py): the
\* attributes the class sets.  It sets neither `quiet` nor `execution_mode`.
DeleteUnpackedConfig(dry_run, always_delete, never_delete, hidden) ==
    [class |-> "DeleteUnpackedConfig", dry_run |-> dry_run,
     always_delete |-> always_delete, never_delete |-> never_delete,
     include_hidden |-> hidden]

\* hasattr(c, name)
hasattr(c, name) == name \in DOMAIN c

\* the execution mode the command line and the tests of delete-unpacked
\* expect of a configuration: the rule of OrganizeConfig.execution_mode
DeleteUnpackedConfig_execution_mode(c) ==
    IF c.dry_run THEN "DRY_RUN"
    ELSE IF c.always_delete \/ c.never_delete THEN "AUTOMATIC"
    ELSE "INTERACTIVE"

\* config.execution_mode: the property of OrganizeConfig, the attribute of
\* any other object
execution_mode(c) ==
    IF c.class # "OrganizeConfig" THEN c.execution_mode
    ELSE IF c.dry_run THEN "DRY_RUN"
    ELSE IF c.always_delete \/ c.never_delete THEN "AUTOMATIC"
    ELSE "INTERACTIVE"

\* ComponentFactory.create_confirmation_handler; reading execution_mode of
\* an object without it raises AttributeError
create_confirmation_handler(c) ==
    IF c.class # "OrganizeConfig" /\ ~hasattr(c, "execution_mode")
    THEN Raised("AttributeError")
    ELSE IF execution_mode(c) = "DRY_RUN" THEN DryRunConfirmationHandler
    ELSE IF execution_mode(c) = "AUTOMATIC"
    THEN IF c.class = "DeleteUnpackedConfig"
         THEN AutomaticConfirmationHandler(c.always_delete)
         ELSE AutomaticConfirmationHandler(TRUE)
    ELSE InteractiveConfirmationHandler

\* no File is being constructed
FileIdle ==
    /\ file_date_tuple = <<1970, 1, 1>>
    /\ file_date = [none |-> TRUE]

\* no file is being organized, no scan is in progress and no handler was
\* called
ProcessorIdle ==
    /\ file_paths = <<>>
    /\ file_index = 0
    /\ stats = [total_files |-> 0, processed_files |-> 0,
                skipped_files |-> 0, errors |-> 0]
    /\ executed = {}
    /\ existing = {}
    /\ final_paths = <<>>
    /\ target_dir = [files |-> <<>>, dirs |-> <<>>]
    /\ potential_duplicates = [none |-> TRUE]
    /\ calls = <<>>

\* no organize run either
OrganizeIdle ==
    /\ config = OrganizeConfig(TRUE, FALSE, FALSE)
    /\ ProcessorIdle

----------------------------------------------------------------------------
(* commands/delete_unpacked_command.py.  A candidate pair is an archive    *)
(* and the sibling directory named by its stem, under the directory        *)
(* `parent`.                                                               *)

Pair(parent, name, content, files) ==
    [parent |-> parent, archive_path |-> name, archive_content |-> content,
     directory |-> [kind |-> "dir", tree |-> Leaf(files)]]

CandidatePairs ==
    { Pair("p", <<"x", ".", "z", "i", "p">>,
           [kind |-> "ok", members |-> <<File(<<"x">>, 1, 5)>>],
           <<File(<<"x">>, 2, 5)>>),
      Pair("p", E_COMBINING \o <<".", "z", "i", "p">>,
           [kind |-> "ok", members |-> <<File(<<"x">>, 1, 5)>>],
           <<File(<<".", "x">>, 2, 5), File(<<"x">>, 2, 5)>>),
      Pair("q", <<"x", ".", "z", "i", "p">>, [kind |-> "corrupt"], <<>>),
      Pair("q", E_COMBINING \o <<".", "z", "i", "p">>,
           [kind |-> "ok", members |-> <<File(<<"x">>, 1, 5)>>],
           <<File(<<"x">>, 2, 7)>>),
      Pair("r", <<"x", ".", "z", "i", "p">>, [kind |-> "unreadable"],
           <<File(<<"x">>, 2, 5)>>),
      Pair("r", E_COMBINING \o <<".", "z", "i", "p">>,
           [kind |-> "ok", members |-> <<File(<<"x">>, 1, 5)>>],
           <<File(<<"x">>, 2, 5)>>) }

\* the lists a scan can return: distinct pairs, those of one parent
\* directory next to each other (os.walk finishes a directory before it
\* reports the next), the directories in the order of the file system
PairLists ==
    {ps \in SeqsUpTo(CandidatePairs, MaxPairs) :
        /\ \A a, b \in 1..Len(ps) : ps[a] = ps[b] => a = b
        /\ \A a, b, c \in 1..Len(ps) :
               a < b /\ b < c /\ ps[a].parent = ps[c].parent
               => ps[b].parent = ps[a].parent}

\* the configuration objects a command is built with: an object of the
\* class of config/delete_unpacked_config.py, and that object with `quiet`,
\* with `execution_mode`, or with both attributes added
DeleteUnpackedConfigs ==
    LET plain == {DeleteUnpackedConfig(d, a, n, h) :
                      d \in BOOLEAN, a \in BOOLEAN, n \in BOOLEAN,
                      h \in BOOLEAN}
                 \ {DeleteUnpackedConfig(d, TRUE, TRUE, h) :
                        d \in BOOLEAN, h \in BOOLEAN}
        mode(c) == [execution_mode |-> DeleteUnpackedConfig_execution_mode(c)]
    IN  plain
        \cup {c @@ mode(c) : c \in plain}
        \cup {c @@ [quiet |-> q] : c \in plain, q \in BOOLEAN}
        \cup {c @@ mode(c) @@ [quiet |-> q] : c \in plain, q \in BOOLEAN}

EmptyCache == [k \in {} |-> ""]

\* the command is not running
ExecuteIdle ==
    /\ potential_pairs = <<>>
    /\ confirmation_handler = DryRunConfirmationHandler
    /\ responses = EmptyCache
    /\ pair_index = 0
    /\ all_results = <<>>
    /\ deleted_count = 0
    /\ compared = <<>>
    /\ asked = {}
    /\ prompted = <<>>
    /\ confirmed = {}
    /\ removed = {}
    /\ logged = <<>>
    /\ summary = NoResult

\* a command about to be built with a configuration object, in a process
\* with some hash seed, over a target directory holding some pairs
ExecuteInit ==
    /\ archive_path = <<>>
    /\ archive_content = [kind |-> "absent"]
    /\ directory = [kind |-> "notdir"]
    /\ config \in DeleteUnpackedConfigs
    /\ include_hidden = config.include_hidden
    /\ hash_seed \in HashSeeds
    /\ result = NoResult
    /\ pc = "construct"
    /\ potential_pairs \in PairLists
    /\ confirmation_handler = None
    /\ responses = EmptyCache
    /\ pair_index = 0
    /\ all_results = <<>>
    /\ deleted_count = 0
    /\ compared = <<>>
    /\ asked = {}
    /\ prompted = <<>>
    /\ confirmed = {}
    /\ removed = {}
    /\ logged = <<>>
    /\ summary = NoResult
    /\ ProcessorIdle
    /\ FileIdle

current_pair == potential_pairs[pair_index]

\* the end of one iteration of `for archive_path, directory_path in ...`
next_pair_pc == IF pair_index < Len(potential_pairs) THEN "compare" ELSE "summary"

is_duplicate_unchecked(r) == TRUE

\* if result.identical (line 71)
is_duplicate(r) == r.identical

\* DeleteUnpackedCommand.__init__: the comparator and the handler of the
\* factory; an AttributeError of the factory leaves no command
ExecuteConstruct ==
    /\ pc = "construct"
    /\ LET handler == create_confirmation_handler(config)
       IN  IF IsRaised(handler)
           THEN /\ pc' = "raised"
                /\ UNCHANGED confirmation_handler
           ELSE /\ pc' = "scan"
                /\ confirmation_handler' = handler
    /\ UNCHANGED <<compare_vars, include_hidden, hash_seed, organize_vars,
                   scan_vars, confirm_vars, file_vars, potential_pairs,
                   responses, pair_index, all_results, deleted_count,
                   compared, asked, prompted, confirmed, removed, logged,
                   summary>>

\* setup_logging(self.config.quiet), whose AttributeError is logged and
\* raised again by the outer `except Exception`; then potential_pairs =
\* find_potential_duplicates(...); if not potential_pairs
ExecuteScan ==
    /\ pc = "scan"
    /\ IF ~hasattr(config, "quiet")
       THEN /\ pc' = "raised"
            /\ logged' = Append(logged, "Unexpected error")
            /\ UNCHANGED pair_index
       ELSE IF potential_pairs = <<>>
       THEN /\ pc' = "done"
            /\ logged' = Append(logged, "No potential duplicates found")
            /\ UNCHANGED pair_index
       ELSE /\ pc' = "compare"
            /\ pair_index' = 1
            /\ UNCHANGED logged
    /\ UNCHANGED <<compare_vars, include_hidden, hash_seed, organize_vars, scan_vars, confirm_vars, potential_pairs,
                   confirmation_handler, responses, all_results,
                   deleted_count, compared, asked, prompted, confirmed,
                   removed>>
    /\ UNCHANGED summary
    /\ UNCHANGED file_vars

\* result = self.comparator.compare_archive_and_directory(...) and, for a
\* result that is not identical, the else branch and all_results.append
ExecuteCompare ==
    /\ pc = "compare"
    /\ LET r == compare_archive_and_directory(
                    current_pair.archive_path, current_pair.archive_content,
                    current_pair.directory, include_hidden, hash_seed)
       IN  /\ result' = r
           /\ compared' = Append(compared, r)
           /\ IF is_duplicate(r)
              THEN /\ pc' = "confirm"
                   /\ UNCHANGED <<all_results, pair_index>>
              ELSE /\ all_results' = Append(all_results, r)
                   /\ pc' = next_pair_pc
                   /\ pair_index' = pair_index + 1
    /\ UNCHANGED <<archive_path, archive_content, directory, include_hidden,
                   hash_seed, organize_vars, scan_vars, confirm_vars, potential_pairs, confirmation_handler,
                   responses, deleted_count, asked, prompted, confirmed,
                   removed, logged>>
    /\ UNCHANGED summary
    /\ UNCHANGED file_vars

\* self.confirmation_handler.should_execute(..., action_type="delete"): an
\* EOFError ends the iteration in `except Exception`, a KeyboardInterrupt
\* ends execute in `except KeyboardInterrupt`
ExecuteConfirm ==
    /\ pc = "confirm"
    /\ \E input \in Inputs :
          LET call == should_execute(confirmation_handler, responses,
                                     current_pair.parent, "delete", input)
          IN  /\ responses' = call.responses
              /\ calls' = Append(calls, CallRecord(current_pair.parent,
                                                   "delete", input, call))
              /\ asked' = asked \cup {pair_index}
              /\ prompted' = IF call.prompted
                             THEN Append(prompted, pair_index) ELSE prompted
              /\ IF IsRaised(call.outcome)
                 THEN IF call.outcome.raised = "KeyboardInterrupt"
                      THEN /\ pc' = "cancelled"
                           /\ logged' = Append(logged,
                                               "Operation cancelled by user")
                           /\ UNCHANGED <<pair_index, all_results, confirmed>>
                      ELSE /\ pc' = next_pair_pc
                           /\ pair_index' = pair_index + 1
                           /\ logged' = Append(logged, "Error comparing")
                           /\ UNCHANGED <<all_results, confirmed>>
                 ELSE IF call.outcome.returned
                 THEN /\ pc' = "delete"
                      /\ confirmed' = confirmed \cup {pair_index}
                      /\ UNCHANGED <<pair_index, all_results, logged>>
                 ELSE /\ pc' = next_pair_pc
                      /\ pair_index' = pair_index + 1
                      /\ all_results' = Append(all_results, result)
                      /\ logged' = Append(logged, "Skipping deletion")
                      /\ UNCHANGED confirmed
    /\ UNCHANGED <<compare_vars, include_hidden, hash_seed, organize_vars, scan_vars, potential_pairs,
                   confirmation_handler, deleted_count, compared, removed>>
    /\ UNCHANGED summary
    /\ UNCHANGED file_vars

\* an execute whose per-pair handler re-raises: an OSError of rmtree ends
\* the loop, and execute, before the summary
ExecuteDelete_reraising ==
    /\ pc = "delete"
    /\ removed' = removed \cup {pair_index}
    /\ \E rmtree_raises \in BOOLEAN :
          IF rmtree_raises
          THEN /\ logged' = Append(logged, "Error comparing")
               /\ pc' = "done"
               /\ UNCHANGED <<deleted_count, all_results, pair_index>>
          ELSE /\ deleted_count' = deleted_count + 1
               /\ all_results' = Append(all_results, result)
               /\ pc' = next_pair_pc
               /\ pair_index' = pair_index + 1
               /\ UNCHANGED logged
    /\ UNCHANGED <<compare_vars, include_hidden, hash_seed, organize_vars, scan_vars, confirm_vars, potential_pairs,
                   confirmation_handler, responses, compared, asked,
                   prompted, confirmed>>
    /\ UNCHANGED summary
    /\ UNCHANGED file_vars

\* shutil.rmtree(directory_path); deleted_count += 1; an OSError of rmtree
\* ends the iteration in `except Exception`
ExecuteDelete ==
    /\ pc = "delete"
    /\ removed' = removed \cup {pair_index}
    /\ \E rmtree_raises \in BOOLEAN :
          IF rmtree_raises
          THEN /\ logged' = Append(logged, "Error comparing")
               /\ UNCHANGED <<deleted_count, all_results>>
          ELSE /\ deleted_count' = deleted_count + 1
               /\ all_results' = Append(all_results, result)
               /\ UNCHANGED logged
    /\ pc' = next_pair_pc
    /\ pair_index' = pair_index + 1
    /\ UNCHANGED <<compare_vars, include_hidden, hash_seed, organize_vars, scan_vars, confirm_vars, potential_pairs,
                   confirmation_handler, responses, compared, asked,
                   prompted, confirmed>>
    /\ UNCHANGED summary
    /\ UNCHANGED file_vars

\* self._print_summary(all_results, deleted_count, len(potential_pairs))
ExecuteSummary ==
    /\ pc = "summary"
    /\ pc' = "done"
    /\ summary' = get_comparison_summary(all_results)
    /\ logged' = Append(logged, "Summary")
    /\ UNCHANGED <<compare_vars, include_hidden, hash_seed, organize_vars, scan_vars, confirm_vars, potential_pairs,
                   confirmation_handler, responses, pair_index, all_results,
                   deleted_count, compared, asked, prompted, confirmed,
                   removed>>
    /\ UNCHANGED file_vars

ExecuteNext ==
    \/ ExecuteConstruct
    \/ ExecuteScan
    \/ ExecuteCompare
    \/ ExecuteConfirm
    \/ ExecuteDelete
    \/ ExecuteSummary

SpecExecute == ExecuteInit /\ [][ExecuteNext]_vars

----------------------------------------------------------------------------
(* get_comparison_summary over any list of results *)

MaxResults == 6

\* the results a list is made of: one identical, one with a difference
SummaryResults ==
    {ComparisonResult(TRUE, <<>>, <<>>, <<>>),
     ComparisonResult(FALSE, <<>>, <<>>, <<"difference">>)}

SummaryInit ==
    /\ archive_path = <<>>
    /\ archive_content = [kind |-> "absent"]
    /\ directory = [kind |-> "notdir"]
    /\ include_hidden = FALSE
    /\ hash_seed = 0
    /\ result = NoResult
    /\ pc = "summarize"
    /\ potential_pairs = <<>>
    /\ confirmation_handler = DryRunConfirmationHandler
    /\ responses = EmptyCache
    /\ pair_index = 0
    /\ all_results \in SeqsUpTo(SummaryResults, MaxResults)
    /\ deleted_count = 0
    /\ compared = <<>>
    /\ asked = {}
    /\ prompted = <<>>
    /\ confirmed = {}
    /\ removed = {}
    /\ logged = <<>>
    /\ summary = NoResult
    /\ OrganizeIdle
    /\ FileIdle

\* comparator.get_comparison_summary(results)
GetComparisonSummary ==
    /\ pc = "summarize"
    /\ summary' = get_comparison_summary(all_results)
    /\ pc' = "summarized"
    /\ UNCHANGED <<compare_vars, include_hidden, hash_seed, organize_vars,
                   scan_vars, confirm_vars, file_vars, potential_pairs,
                   confirmation_handler, responses, pair_index, all_results,
                   deleted_count, compared, asked, prompted, confirmed,
                   removed, logged>>

SummaryNext == GetComparisonSummary

SpecSummary == SummaryInit /\ [][SummaryNext]_vars

----------------------------------------------------------------------------
(* file_operations/file_matcher.py, execution/action_executor.py and      *)
(* execution/file_processor.py.  The rules of a run test the end of the   *)
(* file name; the collected files are regular files.                      *)

Rule(id, end, case_sensitive, action) ==
    [id |-> id, conditions |-> [end |-> end],
     case_sensitive |-> case_sensitive, action |-> action]

Action(type, target) == [type |-> type, target |-> target]

Rules ==
    << Rule("r1", <<".", "z">>, FALSE, Action("delete", "")),
       Rule("r2", <<"a">>, FALSE, Action("move", "t")),
       Rule("r3", <<"e">>, TRUE, Action("delete", "")),
       Rule("r4", <<"i">>, FALSE, Action("move", "")),
       Rule("r5", <<"z">>, FALSE, Action("compress", "c")) >>

VALID_ACTIONS == {"move", "delete", "compress"}

\* FileMatcher._file_matches_conditions, for an "end" condition
file_matches_conditions(name, conditions, case_sensitive) ==
    IF case_sensitive THEN endswith(name, conditions.end)
    ELSE endswith(lower(name), lower(conditions.end))

\* FileMatcher.match: the first rule that matches, or None
FileMatcher_match(name) ==
    LET matching == {k \in 1..Len(Rules) :
                        file_matches_conditions(name, Rules[k].conditions,
                                                Rules[k].case_sensitive)}
    IN  IF matching = {} THEN None
        ELSE Rules[CHOOSE k \in matching : \A j \in matching : k <= j]

\* CompressStrategy.COMPRESSED_EXTENSIONS
COMPRESSED_EXTENSIONS ==
    { <<".", "z", "i", "p">>, <<".", "r", "a", "r">>, <<".", "7", "z">>,
      <<".", "t", "a", "r">>, <<".", "g", "z">>, <<".", "b", "z", "2">> }

\* CompressStrategy.execute leaves a file that is already compressed alone
skips_compression(file_path) == suffix(lower(file_path)) \in COMPRESSED_EXTENSIONS

\* ActionStrategy._resolve_conflict: the path itself when nothing is there,
\* else the first of stem_1, stem_2, ... (before the suffix) that is free
RECURSIVE resolve_conflict(_, _, _, _)
resolve_conflict(target_dir_path, name, number, disk) ==
    LET new_path ==
            IF number = 0 THEN target_dir_path \o name
            ELSE target_dir_path \o stem(name) \o <<"_", ToString(number)>>
                 \o suffix(name)
    IN  IF new_path \notin disk THEN new_path
        ELSE resolve_conflict(target_dir_path, name, number + 1, disk)

\* how the file operations of a strategy end: all succeed ("none"), the
\* first one raises ("before": nothing changed), or the new file is written
\* and removing the original raises ("partial": the unlink after the copy of
\* shutil.move, the unlink after _create_zip_archive)
OsErrors == {"none", "before", "partial"}

\* ActionExecutor.execute_action with its strategy: the files on disk after
\* the call
execute_action(action, file_path, disk, os_error) ==
    IF action.type \notin VALID_ACTIONS THEN disk
    ELSE IF action.type \in {"move", "compress"} /\ action.target = ""
    THEN disk
    ELSE IF action.type = "delete"
    THEN IF os_error = "none" THEN disk \ {file_path} ELSE disk
    ELSE IF action.type = "compress" /\ skips_compression(file_path)
    THEN disk
    ELSE LET target_path ==
                 IF action.type = "move"
                 THEN resolve_conflict(<<action.target, "/">>, file_path, 0,
                                       disk)
                 ELSE resolve_conflict(<<action.target, "/">>,
                                       stem(file_path)
                                       \o <<".", "z", "i", "p">>, 0, disk)
         IN  IF os_error = "before" THEN disk
             ELSE IF os_error = "partial" THEN disk \cup {target_path}
             ELSE (disk \ {file_path}) \cup {target_path}

\* MoveStrategy.execute, DeleteStrategy.execute, CompressStrategy.execute:
\* what the call evaluates to when it does not raise.  None of the three
\* has a return statement with a value.
strategy_execute(action_type) == None

\* ActionExecutor.execute_action: the value returned (final_path, or None)
execute_action_returns(action, file_path, os_error) ==
    IF action.type \notin VALID_ACTIONS THEN None
    ELSE IF action.type \in {"move", "compress"} /\ action.target = ""
    THEN None
    ELSE IF action.type = "compress" /\ skips_compression(file_path)
    THEN strategy_execute(action.type)
    ELSE IF os_error # "none" THEN None
    ELSE strategy_execute(action.type)

FileNames ==
    { <<"x", ".", "Z">>, <<"x", "a">>, <<"e">>, <<"x", "I">>, <<"x">>,
      <<"x", ".", "7", "z">>, <<"x", "z">> }

\* files the target directories of the rules may hold before the run
TargetFiles ==
    { <<"t", "/", "x", "a">>, <<"t", "/", "x", "a", "_", "1">>,
      <<"c", "/", "x", "z", ".", "z", "i", "p">> }

\* the lists a collection can return: distinct paths
FileLists ==
    {fs \in SeqsUpTo(FileNames, MaxFiles) :
        \A a, b \in 1..Len(fs) : fs[a] = fs[b] => a = b}

\* the configurations __post_init__ accepts
OrganizeConfigs ==
    {OrganizeConfig(d, a, n) : d \in BOOLEAN, a \in BOOLEAN, n \in BOOLEAN}
    \ {OrganizeConfig(d, TRUE, TRUE) : d \in BOOLEAN}

OrganizeInit ==
    /\ archive_path = <<>>
    /\ archive_content = [kind |-> "absent"]
    /\ directory = [kind |-> "notdir"]
    /\ include_hidden = FALSE
    /\ hash_seed = 0
    /\ result = NoResult
    /\ pc = "process"
    /\ potential_pairs = <<>>
    /\ config \in OrganizeConfigs
    /\ confirmation_handler = create_confirmation_handler(config)
    /\ responses = EmptyCache
    /\ pair_index = 0
    /\ all_results = <<>>
    /\ deleted_count = 0
    /\ compared = <<>>
    /\ asked = {}
    /\ prompted = <<>>
    /\ confirmed = {}
    /\ removed = {}
    /\ logged = <<>>
    /\ summary = NoResult
    /\ file_paths \in FileLists
    /\ file_index = 1
    /\ stats = [total_files |-> Len(file_paths), processed_files |-> 0,
                skipped_files |-> 0, errors |-> 0]
    /\ executed = {}
    /\ \E target_files \in SUBSET TargetFiles :
          existing = {file_paths[k] : k \in 1..Len(file_paths)}
                     \cup target_files
    /\ final_paths = <<>>
    /\ target_dir = [files |-> <<>>, dirs |-> <<>>]
    /\ potential_duplicates = [none |-> TRUE]
    /\ calls = <<>>
    /\ FileIdle

count(field) == [stats EXCEPT ![field] = @ + 1]

\* one iteration of process_files: process_file(file_path, target_dir) and
\* the count of its outcome; an EOFError of the prompt is counted as an
\* error, a KeyboardInterrupt leaves process_files
ProcessFile ==
    /\ pc = "process"
    /\ file_index <= Len(file_paths)
    /\ LET file_path == file_paths[file_index]
           rule == FileMatcher_match(file_path)
       IN  IF rule = None
           THEN /\ stats' = count("skipped_files")
                /\ file_index' = file_index + 1
                /\ UNCHANGED <<pc, responses, asked, prompted, confirmed,
                               executed, existing, final_paths>>
           ELSE \E input \in Inputs, os_error \in OsErrors :
                   LET call == should_execute(confirmation_handler, responses,
                                              rule.id, rule.action.type, input)
                   IN  /\ responses' = call.responses
                       /\ asked' = asked \cup {file_index}
                       /\ prompted' = IF call.prompted
                                      THEN Append(prompted, file_index)
                                      ELSE prompted
                       /\ IF IsRaised(call.outcome)
                          THEN /\ IF call.outcome.raised = "KeyboardInterrupt"
                                  THEN /\ pc' = "cancelled"
                                       /\ UNCHANGED <<stats, file_index>>
                                  ELSE /\ stats' = count("errors")
                                       /\ file_index' = file_index + 1
                                       /\ UNCHANGED pc
                               /\ UNCHANGED <<confirmed, executed, existing,
                                               final_paths>>
                          ELSE /\ stats' = count("processed_files")
                               /\ file_index' = file_index + 1
                               /\ UNCHANGED pc
                               /\ IF call.outcome.returned
                                  THEN /\ confirmed' =
                                             confirmed \cup {file_index}
                                       /\ executed' =
                                             executed \cup {file_index}
                                       /\ existing' =
                                             execute_action(rule.action,
                                                 file_path, existing, os_error)
                                       /\ final_paths' =
                                             [k \in DOMAIN final_paths
                                                     \cup {file_index} |->
                                                 IF k = file_index
                                                 THEN execute_action_returns(
                                                          rule.action,
                                                          file_path, os_error)
                                                 ELSE final_paths[k]]
                                  ELSE UNCHANGED <<confirmed, executed,
                                                   existing, final_paths>>
    /\ UNCHANGED <<compare_vars, include_hidden, hash_seed, scan_vars, confirm_vars,
                   potential_pairs,
                   confirmation_handler, pair_index, all_results,
                   deleted_count, compared, removed, logged, config,
                   file_paths>>
    /\ UNCHANGED summary
    /\ UNCHANGED file_vars

\* return stats
ReturnStats ==
    /\ pc = "process"
    /\ file_index > Len(file_paths)
    /\ pc' = "done"
    /\ UNCHANGED <<compare_vars, include_hidden, hash_seed, execute_vars,
                   organize_vars, scan_vars, confirm_vars>>
    /\ UNCHANGED file_vars

OrganizeNext ==
    \/ ProcessFile
    \/ ReturnStats

SpecOrganize == OrganizeInit /\ [][OrganizeNext]_vars

----------------------------------------------------------------------------
(* comparison/archive_directory_comparator.py: the scan.  A scanned tree   *)
(* is [files |-> <<[name, stat], ...>>, dirs |-> <<[name, listable, tree],  *)
(* ...>>] in the order os.walk reports the entries: `files` are the        *)
(* entries that are not directories, stat is "ok" or "OSError" (a dangling *)
(* symbolic link, or an entry the process may not stat), and a directory   *)
(* that is not listable cannot be read by the process.  Paths are relative *)
(* to target_dir.                                                          *)

MaxEntries == 2

Entry(name, stat) == [name |-> name, stat |-> stat]

Dir(name, listable, tree) == [name |-> name, listable |-> listable, tree |-> tree]

Scanned(pairs, raised) == [pairs |-> pairs, raised |-> raised]

\* File.from_path(file_path) of an entry that is not a directory
from_path(entry) ==
    IF entry.stat = "ok" THEN Returned(entry.name) ELSE Raised("OSError")

is_sibling_directory_unchecked(tree, dir_name) == TRUE

\* expected_dir_path.exists() and expected_dir_path.is_dir()
is_sibling_directory(tree, dir_name) ==
    \E i \in 1..Len(tree.dirs) : tree.dirs[i].name = dir_name

\* the loop `for file_name in files` of one os.walk step: the pairs it
\* appends, and whether File.from_path raised out of it
RECURSIVE scan_files(_, _, _)
scan_files(files, tree, root_path) ==
    IF files = <<>> THEN Scanned(<<>>, FALSE)
    ELSE LET archive_file == from_path(files[1])
         IN  IF IsRaised(archive_file) THEN Scanned(<<>>, TRUE)
             ELSE LET dir_name == stem(files[1].name)
                      here ==
                          IF /\ get_archive_manager(archive_file.returned)
                                # "None"
                             /\ is_sibling_directory(tree, dir_name)
                          THEN << <<root_path \o files[1].name,
                                    root_path \o dir_name>> >>
                          ELSE <<>>
                      rest == scan_files(Tail(files), tree, root_path)
                  IN  Scanned(here \o rest.pairs, rest.raised)

\* the loop `for root, _dirs, files in os.walk(target_dir)`, top-down;
\* os.walk passes over a directory it cannot list
RECURSIVE scan_walk(_, _)
RECURSIVE scan_walk_dirs(_, _)
scan_walk(tree, root_path) ==
    LET here == scan_files(tree.files, tree, root_path)
    IN  IF here.raised THEN here
        ELSE LET below == scan_walk_dirs(tree.dirs, root_path)
             IN  Scanned(here.pairs \o below.pairs, below.raised)
scan_walk_dirs(dirs, root_path) ==
    IF dirs = <<>> THEN Scanned(<<>>, FALSE)
    ELSE LET first ==
                 IF dirs[1].listable
                 THEN scan_walk(dirs[1].tree,
                                root_path \o dirs[1].name \o <<"/">>)
                 ELSE Scanned(<<>>, FALSE)
         IN  IF first.raised THEN first
             ELSE LET rest == scan_walk_dirs(Tail(dirs), root_path)
                  IN  Scanned(first.pairs \o rest.pairs, rest.raised)

\* ArchiveDirectoryComparator.find_potential_duplicates: `except OSError`
\* ends the walk and the pairs appended so far are returned
find_potential_duplicates(tree) == scan_walk(tree, <<>>).pairs

\* entries of a scanned directory: archives in either case, a hidden file
\* named like an extension, files that are no archive, entries that cannot
\* be stat'ed
ScanEntries ==
    { Entry(<<"x", ".", "z", "i", "p">>, "ok"),
      Entry(<<"x", ".", "Z", "I", "P">>, "ok"),
      Entry(<<"x", ".", "7", "z">>, "ok"),
      Entry(<<"a", ".", "r", "a", "r">>, "ok"),
      Entry(<<".", "z", "i", "p">>, "ok"),
      Entry(<<"x", ".", "t", "a", "r", ".", "g", "z">>, "ok"),
      Entry(<<"a">>, "ok"),
      Entry(<<"a">>, "OSError"),
      Entry(<<"x", ".", "z", "i", "p">>, "OSError") }

EmptyTree == [files |-> <<>>, dirs |-> <<>>]

\* a directory holding x.zip next to the directory x
PairTree ==
    [files |-> <<Entry(<<"x", ".", "z", "i", "p">>, "ok")>>,
     dirs |-> <<Dir(<<"x">>, TRUE, EmptyTree)>>]

\* the same with an entry that cannot be stat'ed, listed before or after
\* the archive
BrokenPairTrees ==
    {[files |-> files, dirs |-> <<Dir(<<"x">>, TRUE, EmptyTree)>>] :
        files \in Arrangements(<<Entry(<<"a">>, "OSError"),
                                 Entry(<<"x", ".", "z", "i", "p">>, "ok")>>)}

\* the subdirectories of a scanned directory
ScanDirContents ==
    { <<>>,
      <<Dir(<<"x">>, TRUE, EmptyTree)>>,
      <<Dir(<<"x">>, FALSE, PairTree)>>,
      <<Dir(<<"a">>, TRUE, PairTree)>>,
      <<Dir(<<".", "x">>, TRUE, PairTree), Dir(<<"x">>, TRUE, EmptyTree)>>,
      <<Dir(<<"x">>, TRUE, PairTree), Dir(<<"a">>, TRUE, PairTree)>>,
      <<Dir(<<"x">>, FALSE, PairTree), Dir(<<"a">>, TRUE, PairTree)>>,
      <<Dir(<<".", "z", "i", "p">>, TRUE, EmptyTree)>> }
    \cup {<<Dir(<<"x">>, TRUE, broken), Dir(<<"a">>, TRUE, PairTree)>> :
              broken \in BrokenPairTrees}

\* the subdirectories in every order os.walk can list them
ScanDirs == UNION {Arrangements(dirs) : dirs \in ScanDirContents}

\* the names of the entries of one directory are distinct
ScanTrees ==
    {tree \in [files : SeqsUpTo(ScanEntries, MaxEntries), dirs : ScanDirs] :
        /\ \A i, j \in 1..Len(tree.files) :
              tree.files[i].name = tree.files[j].name => i = j
        /\ \A i \in 1..Len(tree.files) : \A j \in 1..Len(tree.dirs) :
              tree.files[i].name # tree.dirs[j].name}

ScanInit ==
    /\ archive_path = <<>>
    /\ archive_content = [kind |-> "absent"]
    /\ directory = [kind |-> "notdir"]
    /\ include_hidden = FALSE
    /\ hash_seed = 0
    /\ result = NoResult
    /\ pc = "scan"
    /\ ExecuteIdle
    /\ config = OrganizeConfig(TRUE, FALSE, FALSE)
    /\ file_paths = <<>>
    /\ file_index = 0
    /\ stats = [total_files |-> 0, processed_files |-> 0,
                skipped_files |-> 0, errors |-> 0]
    /\ executed = {}
    /\ existing = {}
    /\ final_paths = <<>>
    /\ target_dir \in ScanTrees
    /\ potential_duplicates = NoResult
    /\ calls = <<>>
    /\ FileIdle

\* potential_pairs = self.comparator.find_potential_duplicates(target_dir)
FindPotentialDuplicates ==
    /\ pc = "scan"
    /\ potential_duplicates' = find_potential_duplicates(target_dir)
    /\ pc' = "scanned"
    /\ UNCHANGED <<compare_vars, include_hidden, hash_seed, execute_vars,
                   organize_vars, target_dir, confirm_vars>>
    /\ UNCHANGED file_vars

ScanNext == FindPotentialDuplicates

SpecScan == ScanInit /\ [][ScanNext]_vars

----------------------------------------------------------------------------
(* One InteractiveConfirmationHandler and the should_execute calls its     *)
(* callers make on it, with any cache key, action type and user input.     *)

MaxCalls == 3

\* cache_key: "" stands for None (no key); FileProcessor passes the id of
\* the rule, the delete-unpacked command the parent directory
CacheKeys == {"", "p", "q"}

ActionTypes == {"delete", "move"}

ConfirmInit ==
    /\ archive_path = <<>>
    /\ archive_content = [kind |-> "absent"]
    /\ directory = [kind |-> "notdir"]
    /\ include_hidden = FALSE
    /\ hash_seed = 0
    /\ result = NoResult
    /\ pc = "handler"
    /\ potential_pairs = <<>>
    /\ confirmation_handler = InteractiveConfirmationHandler
    /\ responses = EmptyCache
    /\ pair_index = 0
    /\ all_results = <<>>
    /\ deleted_count = 0
    /\ compared = <<>>
    /\ asked = {}
    /\ prompted = <<>>
    /\ confirmed = {}
    /\ removed = {}
    /\ logged = <<>>
    /\ summary = NoResult
    /\ OrganizeIdle
    /\ FileIdle

\* handler.should_execute(context_info, prompt_template, cache_key,
\* action_type); an exception of input() leaves the handler as it was
ShouldExecute ==
    /\ pc = "handler"
    /\ Len(calls) < MaxCalls
    /\ \E cache_key \in CacheKeys, action_type \in ActionTypes, input \in Inputs :
          LET call == should_execute(confirmation_handler, responses,
                                     cache_key, action_type, input)
          IN  /\ responses' = call.responses
              /\ calls' = Append(calls, CallRecord(cache_key, action_type,
                                                   input, call))
    /\ UNCHANGED <<compare_vars, include_hidden, hash_seed, pc, organize_vars,
                   scan_vars, potential_pairs, confirmation_handler,
                   pair_index, all_results, deleted_count, compared, asked,
                   prompted, confirmed, removed, logged>>
    /\ UNCHANGED summary
    /\ UNCHANGED file_vars

ConfirmNext == ShouldExecute

SpecConfirm == ConfirmInit /\ [][ConfirmNext]_vars

----------------------------------------------------------------------------
(* entities/file.py: File.__init__ with a date tuple (year, month, day).   *)
(* The time of day is clamped on its own and does not reach the date.      *)

MaxCarry == 40

\* calendar.isleap
isleap(year) == year % 4 = 0 /\ (year % 100 # 0 \/ year % 400 = 0)

\* calendar.monthrange(year, month)[1]
days_in_month(year, month) ==
    IF month = 2 THEN (IF isleap(year) THEN 29 ELSE 28)
    ELSE IF month \in {4, 6, 9, 11} THEN 30
    ELSE 31

max(a, b) == IF a >= b THEN a ELSE b

min(a, b) == IF a <= b THEN a ELSE b

Date(year, month, day) == [year |-> year, month |-> month, day |-> day]

\* while day < 1: ...
RECURSIVE normalize_underflow(_, _, _)
normalize_underflow(year, month, day) ==
    IF day >= 1 THEN Date(year, month, day)
    ELSE LET m == IF month - 1 = 0 THEN 12 ELSE month - 1
             y == IF month - 1 = 0 THEN max(1970, year - 1) ELSE year
         IN  normalize_underflow(y, m, day + days_in_month(y, m))

\* while day > calendar.monthrange(year, month)[1]: ...
RECURSIVE normalize_overflow(_, _, _)
normalize_overflow(year, month, day) ==
    IF day <= days_in_month(year, month) THEN Date(year, month, day)
    ELSE LET m == IF month + 1 > 12 THEN 1 ELSE month + 1
             y == IF month + 1 > 12 THEN year + 1 ELSE year
         IN  normalize_overflow(y, m, day - days_in_month(year, month))

\* datetime.MAXYEAR
MAXYEAR == 9999

\* File._normalize_date_tuple: the date handed to datetime(...), whose
\* timestamp is returned, or the ValueError raised for a year datetime
\* does not take
normalize_date_tuple(date_tuple) ==
    LET year == max(1970, min(date_tuple[1], 9999))
        month == max(1, min(date_tuple[2], 12))
        low == normalize_underflow(year, month, date_tuple[3])
        high == normalize_overflow(low.year, low.month, low.day)
    IN  IF high.year > MAXYEAR THEN Raised("ValueError") ELSE Returned(high)

\* the years, months and days a date tuple is built from: the ends of the
\* year range, leap and common years, every month, days up to MaxCarry
\* past either end of the longest month
Years == {1970, 1971, 1972, 2000, 2100, 9998, 9999}

DateTuples == Years \X (1..12) \X ((1 - MaxCarry)..(31 + MaxCarry))

FileInit ==
    /\ archive_path = <<>>
    /\ archive_content = [kind |-> "absent"]
    /\ directory = [kind |-> "notdir"]
    /\ include_hidden = FALSE
    /\ hash_seed = 0
    /\ result = NoResult
    /\ pc = "construct"
    /\ ExecuteIdle
    /\ OrganizeIdle
    /\ file_date_tuple \in DateTuples
    /\ file_date = NoResult

\* File(path, name, date_tuple, size)
ConstructFile ==
    /\ pc = "construct"
    /\ file_date' = normalize_date_tuple(file_date_tuple)
    /\ pc' = "constructed"
    /\ UNCHANGED <<compare_vars, include_hidden, hash_seed, execute_vars,
                   organize_vars, scan_vars, confirm_vars, file_date_tuple>>

FileNext == ConstructFile

SpecFile == FileInit /\ [][FileNext]_vars

----------------------------------------------------------------------------
(* One comparison *)

\* common_files of _compare_file_structures for the two lists of a result
common_files_in(archive_files, directory_files) ==
    {normalize_unicode(archive_files[i].name) : i \in 1..Len(archive_files)}
    \cap {normalize_unicode(directory_files[i].name) :
              i \in 1..Len(directory_files)}

\* the names the comparison of these inputs finds on both sides
common_files_of(name, content, directory_path, hidden) ==
    UNION {common_files_in(comparison.archive_files,
                           comparison.directory_files) :
           comparison \in {compare_archive_and_directory(
                               name, content, directory_path, hidden, 0)}}

\* hash seeds that iterate over these names in the same order give the same
\* run: one seed for each arrangement of the common names
SeedsOf(common_files) ==
    {seed \in HashSeeds : seed < Factorial(Cardinality(common_files))}

Init ==
    /\ \E input \in ArchiveInputs :
          /\ archive_path = input[1]
          /\ archive_content = input[2]
    /\ directory \in Directories
    /\ include_hidden \in BOOLEAN
    /\ hash_seed \in SeedsOf(common_files_of(archive_path, archive_content,
                                             directory, include_hidden))
    /\ result = NoResult
    /\ pc = "start"
    /\ ExecuteIdle
    /\ OrganizeIdle
    /\ FileIdle

Compare ==
    /\ pc = "start"
    /\ result' = compare_archive_and_directory(archive_path, archive_content,
                                               directory, include_hidden,
                                               hash_seed)
    /\ pc' = "compared"
    /\ UNCHANGED <<archive_path, archive_content, directory, include_hidden,
                   hash_seed, execute_vars, organize_vars, scan_vars, confirm_vars>>
    /\ UNCHANGED file_vars

Next == Compare

Spec == Init /\ [][Next]_vars

----------------------------------------------------------------------------
(* Properties of one comparison *)

Compared == pc = "compared"

supported == get_archive_manager(archive_path) # "None"

\* the archive reader was invoked and failed
ReadFailed ==
    /\ supported
    /\ archive_content.kind \in {"corrupt", "unreadable"}

\* both listings were read and compared (the normal return path)
ReadBoth ==
    /\ supported
    /\ archive_content.kind # "absent"
    /\ ~IsRaised(CompressedArchive_get_files(get_archive_manager(archive_path),
                                             archive_content))
    /\ ~IsRaised(DirectoryAnalyzer_get_files(directory, include_hidden))

read_members ==
    CompressedArchive_get_files(get_archive_manager(archive_path),
                                archive_content).returned

NamesOf(files) == {normalize_unicode(files[i].name) : i \in 1..Len(files)}

Occurrences(seq, x) == Cardinality({i \in 1..Len(seq) : seq[i] = x})

HasKind(message, kind) == message[1] = kind

\* C2: when reading the archive fails, the result is never identical and
\* carries at least one difference, whatever the directory holds
C2_ReadFailureNeverIdentical ==
    (Compared /\ ReadFailed /\ directory.kind = "dir") =>
        (~result.identical /\ Len(result.differences) >= 1)

\* C3: on every return path, identical is true exactly when differences is
\* the empty list
C3_IdenticalIffNoDifferences ==
    Compared => (result.identical <=> result.differences = <<>>)

C3_Witness ==
    /\ Compared
    /\ ReadBoth
    /\ Len(read_members) = MaxMembers
    /\ result.identical
    /\ result.differences = <<>>

\* every file of the tree, hidden ones included, by relative path
all_directory_files == walk(directory.tree, <<>>, TRUE)

\* the relative paths, with a trailing "/", of the subdirectories of a tree
RECURSIVE subdirectories(_, _)
subdirectories(tree, relative_to) ==
    UNION {{relative_to \o tree.dirs[i].name \o <<"/">>}
           \cup subdirectories(tree.dirs[i].tree,
                               relative_to \o tree.dirs[i].name \o <<"/">>) :
           i \in 1..Len(tree.dirs)}

parent_directories(name) ==
    {SubSeq(name, 1, i) : i \in {j \in 1..(Len(name) - 1) : name[j] = "/"}}

is_directory_entry(f) == endswith(f.name, <<"/">>)

NameAndSize(files, keep(_)) ==
    {<<files[i].name, files[i].size>> : i \in {j \in 1..Len(files) : keep(files[j])}}

has_hidden_segment(name) ==
    \E i \in 1..Len(name) : name[i] = "." /\ (i = 1 \/ name[i - 1] = "/")

\* the archive is readable, stores no member under its own stem, and stores
\* no hidden member unless hidden files are compared
PlainArchive ==
    /\ supported
    /\ archive_content.kind = "ok"
    /\ directory.kind = "dir"
    /\ \A i \in 1..Len(archive_content.members) :
          LET name == archive_content.members[i].name
          IN  /\ ~startswith(normalize_unicode(name),
                             normalize_unicode(stem(archive_path)) \o <<"/">>)
              /\ include_hidden \/ ~has_hidden_segment(name)
    /\ \A i \in 1..Len(all_directory_files) :
          include_hidden \/ ~has_hidden_segment(all_directory_files[i].name)
    /\ \A d \in subdirectories(directory.tree, <<>>) :
          include_hidden \/ ~has_hidden_segment(d)

\* the files of the directory are exactly the file members of the archive
SameFiles ==
    /\ NameAndSize(archive_content.members, LAMBDA f : ~is_directory_entry(f))
       = NameAndSize(all_directory_files, LAMBDA f : TRUE)
    /\ \A i, j \in 1..Len(archive_content.members) :
          archive_content.members[i].name = archive_content.members[j].name
              => i = j

directory_entries ==
    {archive_content.members[i].name :
        i \in {j \in 1..Len(archive_content.members) :
                  is_directory_entry(archive_content.members[j])}}

\* the directory is what extracting the archive creates
VerbatimExtraction ==
    /\ PlainArchive
    /\ SameFiles
    /\ subdirectories(directory.tree, <<>>)
       = directory_entries
         \cup UNION {parent_directories(archive_content.members[i].name) :
                        i \in 1..Len(archive_content.members)}

\* C4: a directory that is a verbatim extraction of the archive compares
\* identical, with no differences
C4_RoundTripIdentical ==
    (Compared /\ VerbatimExtraction) =>
        (result.identical /\ result.differences = <<>>)

\* C8: against a directory with subdirectories, the archive that lists only
\* the files and the archive that also lists the subdirectories as entries
\* both compare identical
C8_DirectoryEntriesOptional ==
    (/\ Compared
     /\ PlainArchive
     /\ SameFiles
     /\ subdirectories(directory.tree, <<>>) # {}
     /\ directory_entries \subseteq subdirectories(directory.tree, <<>>))
    => result.identical

archive_names == NamesOf(result.archive_files)

directory_names == NamesOf(result.directory_files)

\* the file a name maps to: the last one of the list with that normalized name
MapsTo(files, n, f) ==
    \E i \in 1..Len(files) :
        /\ files[i] = f
        /\ normalize_unicode(files[i].name) = n
        /\ \A j \in (i + 1)..Len(files) : normalize_unicode(files[j].name) # n

\* C5: the Missing entries are, once each, the names on the archive side
\* only, the Extra entries are, once each, the names on the directory side
\* only, and there is no other Missing or Extra entry
C5_NameDifferencesAreSetDifferences ==
    Compared =>
        /\ \A n \in archive_names \cup directory_names :
              /\ Occurrences(result.differences, missing_message(n))
                 = IF n \in archive_names /\ n \notin directory_names
                   THEN 1 ELSE 0
              /\ Occurrences(result.differences, extra_message(n))
                 = IF n \in directory_names /\ n \notin archive_names
                   THEN 1 ELSE 0
        /\ \A i \in 1..Len(result.differences) :
              LET d == result.differences[i]
              IN  /\ HasKind(d, "Missing in directory: ")
                     => Tail(d) \in archive_names \ directory_names
                  /\ HasKind(d, "Extra in directory: ")
                     => Tail(d) \in directory_names \ archive_names

C5_Witness ==
    /\ Compared
    /\ ReadBoth
    /\ archive_names \ directory_names # {}
    /\ directory_names \ archive_names # {}
    /\ archive_names \cap directory_names # {}
    /\ \E n \in archive_names :
          Occurrences(result.differences, missing_message(n)) = 1
    /\ \E n \in directory_names :
          Occurrences(result.differences, extra_message(n)) = 1

\* C6: for a name on both sides there is a Size mismatch entry, carrying
\* the two sizes, exactly when the sizes differ, and there is no other Size
\* mismatch entry
C6_SizeMismatchIffSizesDiffer ==
    Compared =>
        /\ \A n \in archive_names \cap directory_names :
              \A a \in {result.archive_files[i] :
                           i \in 1..Len(result.archive_files)} :
              \A d \in {result.directory_files[i] :
                           i \in 1..Len(result.directory_files)} :
                  (/\ MapsTo(result.archive_files, n, a)
                   /\ MapsTo(result.directory_files, n, d))
                  => /\ Occurrences(result.differences,
                                    size_mismatch_message(n, a.size, d.size))
                        = IF a.size # d.size THEN 1 ELSE 0
                     /\ \A i \in 1..Len(result.differences) :
                           (/\ HasKind(result.differences[i],
                                       "Size mismatch for ")
                            /\ startswith(Tail(result.differences[i]),
                                          n \o <<": archive=">>))
                           => /\ a.size # d.size
                              /\ result.differences[i]
                                 = size_mismatch_message(n, a.size, d.size)
        /\ \A i \in 1..Len(result.differences) :
              HasKind(result.differences[i], "Size mismatch for ")
              => \E n \in archive_names \cap directory_names :
                    startswith(Tail(result.differences[i]),
                               n \o <<": archive=">>)

C6_Witness ==
    /\ Compared
    /\ ReadBoth
    /\ \E n, m \in archive_names \cap directory_names :
          \E a, b \in {result.archive_files[i] :
                          i \in 1..Len(result.archive_files)} :
          \E d, e \in {result.directory_files[i] :
                          i \in 1..Len(result.directory_files)} :
              /\ MapsTo(result.archive_files, n, a)
              /\ MapsTo(result.directory_files, n, d)
              /\ MapsTo(result.archive_files, m, b)
              /\ MapsTo(result.directory_files, m, e)
              /\ a.size # d.size
              /\ b.size = e.size
              /\ size_mismatch_message(n, a.size, d.size)
                 \in {result.differences[i] : i \in 1..Len(result.differences)}
              /\ Len(result.differences) = 1

\* C9: an archive member and a directory entry whose names have the same
\* NFC form never produce a Missing or an Extra entry, whichever side uses
\* the combining-mark spelling
C9_NfcEqualNamesJoin ==
    Compared =>
        \A i \in 1..Len(result.archive_files) :
        \A j \in 1..Len(result.directory_files) :
            normalize_unicode(result.archive_files[i].name)
            = normalize_unicode(result.directory_files[j].name)
            => \A k \in 1..Len(result.differences) :
                  LET d == result.differences[k]
                  IN  (\/ HasKind(d, "Missing in directory: ")
                       \/ HasKind(d, "Extra in directory: "))
                      => normalize_unicode(Tail(d))
                         # normalize_unicode(result.archive_files[i].name)

C9_Witness ==
    /\ Compared
    /\ ReadBoth
    /\ \E i \in 1..Len(result.archive_files) :
       \E j \in 1..Len(result.directory_files) :
          /\ result.archive_files[i].name = E_ACUTE
          /\ result.directory_files[j].name = E_COMBINING
    /\ result.identical

\* C10: with expected_prefix = NFC(stem) + "/", a member whose NFC name is
\* expected_prefix is discarded, a member whose NFC name starts with it is
\* kept with the prefix removed and its size unchanged, and every other
\* member is kept with its name and size unchanged
C10_PrefixStripping ==
    (Compared /\ ReadBoth) =>
        LET expected_prefix ==
                normalize_unicode(stem(archive_path)) \o <<"/">>
            kept == {i \in 1..Len(read_members) :
                        normalize_unicode(read_members[i].name)
                        # expected_prefix}
            position(i) == Cardinality({j \in kept : j <= i})
        IN  /\ Len(result.archive_files) = Cardinality(kept)
            /\ \A i \in kept :
                  LET member == read_members[i]
                      out == result.archive_files[position(i)]
                  IN  /\ out.size = member.size
                      /\ IF startswith(normalize_unicode(member.name),
                                       expected_prefix)
                         THEN expected_prefix \o out.name
                              = normalize_unicode(member.name)
                         ELSE out.name = member.name

C10_Witness ==
    /\ Compared
    /\ ReadBoth
    /\ stem(archive_path) = E_COMBINING
    /\ Len(read_members) = 2
    /\ read_members[1].name = E_ACUTE \o <<"/">>
    /\ read_members[2].name = E_COMBINING \o <<"/", "x">>
    /\ Len(result.archive_files) = 1
    /\ result.archive_files[1].name = <<"x">>
    /\ result.archive_files[1].size = read_members[2].size

\* the listing DirectoryAnalyzer.get_files returned to the comparison
listed == result.directory_files

hidden_only_in_directory ==
    {i \in 1..Len(all_directory_files) :
        /\ has_hidden_segment(all_directory_files[i].name)
        /\ normalize_unicode(all_directory_files[i].name) \notin archive_names}

\* C11: without include_hidden the listing holds exactly the files with no
\* path segment starting with ".", so nothing below a hidden directory; with
\* include_hidden it holds every file, and a hidden file that only the
\* directory has gives exactly one Extra entry
C11_HiddenFilePolicy ==
    (Compared /\ ReadBoth /\ directory.kind = "dir") =>
        IF include_hidden
        THEN /\ listed = all_directory_files
             /\ \A i \in hidden_only_in_directory :
                   Occurrences(result.differences,
                               extra_message(normalize_unicode(
                                   all_directory_files[i].name))) = 1
        ELSE /\ \A i \in 1..Len(listed) : ~has_hidden_segment(listed[i].name)
             /\ listed = SelectSeq(all_directory_files,
                                   LAMBDA f : ~has_hidden_segment(f.name))

C11_Witness ==
    /\ Compared
    /\ ReadBoth
    /\ directory.kind = "dir"
    /\ include_hidden
    /\ \E i \in hidden_only_in_directory :
          /\ all_directory_files[i].name = <<".", "x", "/", "x">>
          /\ extra_message(all_directory_files[i].name)
             \in {result.differences[k] : k \in 1..Len(result.differences)}
    /\ \E i \in 1..Len(listed) : ~has_hidden_segment(listed[i].name)

\* the comparison kept the listing as get_files returned it: the archive
\* lists a directory other than its own root folder
ListingUnfiltered ==
    original_archive_has_directories_of(read_members, stem(archive_path))

visible(name) == include_hidden \/ ~has_hidden_segment(name)

\* C12: the listing holds every regular file under its relative path and,
\* for every subdirectory, empty or not, an entry named by the relative
\* path plus "/" with size 0
C12_DirectoryPseudoEntries ==
    (Compared /\ ReadBoth /\ directory.kind = "dir" /\ ListingUnfiltered) =>
        /\ \A i \in 1..Len(all_directory_files) :
              visible(all_directory_files[i].name) =>
                  \E j \in 1..Len(listed) :
                      /\ listed[j].name = all_directory_files[i].name
                      /\ listed[j].size = all_directory_files[i].size
        /\ \A d \in subdirectories(directory.tree, <<>>) :
              visible(d) =>
                  \E j \in 1..Len(listed) :
                      listed[j].name = d /\ listed[j].size = 0

\* C13: for an existing archive whose name has no supported extension the
\* result is not identical, has empty listings and the single difference
\* "Unsupported archive format: <suffix>", whatever the archive and the
\* directory hold, readable or not
C13_UnsupportedFormat ==
    (Compared /\ ~supported /\ archive_content.kind # "absent") =>
        /\ ~result.identical
        /\ result.archive_files = <<>>
        /\ result.directory_files = <<>>
        /\ result.differences
           = << <<"Unsupported archive format: ">> \o suffix(archive_path) >>

C13_Witness ==
    /\ Compared
    /\ archive_path = <<"x", ".", "t", "a", "r", ".", "g", "z">>
    /\ archive_content.kind = "unreadable"
    /\ directory.kind = "dir"
    /\ Len(all_directory_files) >= 2
    /\ result.differences
       = << <<"Unsupported archive format: ", ".", "g", "z">> >>
    /\ ~result.identical

\* what the reader of the archive gave its caller
read_outcome ==
    CompressedArchive_get_files(get_archive_manager(archive_path),
                                archive_content)

\* C14: on a corrupt or unreadable archive the ZIP, RAR and 7Z readers raise
\* nothing and return the empty member list, so the comparison sees no
\* member and reports no failure of its own
C14_ReadersNeverRaise ==
    (Compared /\ ReadFailed) =>
        /\ read_outcome = Returned(<<>>)
        /\ directory.kind # "denied" =>
              /\ result.archive_files = <<>>
              /\ \A i \in 1..Len(result.differences) :
                    ~HasKind(result.differences[i], "Comparison failed: ")

\* C15: when the directory cannot be listed at its root (it is not a
\* directory, or the process may not list or reach it) the result is not
\* identical and carries a difference, whatever the archive holds
C15_UnlistableDirectoryNeverIdentical ==
    (Compared /\ directory.kind # "dir") =>
        (~result.identical /\ Len(result.differences) >= 1)

\* the same files with other modification times: the i-th file of a list
\* gets the time (base + i) % 3
redated(files, base) ==
    [i \in 1..Len(files) |->
        File(files[i].name, (base + i) % 3, files[i].size)]

redated_content(content, base) ==
    IF content.kind = "ok"
    THEN [kind |-> "ok", members |-> redated(content.members, base)]
    ELSE content

RECURSIVE redated_tree(_, _)
redated_tree(tree, base) ==
    [files |-> redated(tree.files, base),
     dirs |-> [i \in 1..Len(tree.dirs) |->
                  [name |-> tree.dirs[i].name,
                   tree |-> redated_tree(tree.dirs[i].tree, base)]]]

redated_directory(directory_path, base) ==
    IF directory_path.kind = "dir"
    THEN [kind |-> "dir", tree |-> redated_tree(directory_path.tree, base)]
    ELSE directory_path

\* the comparison of the same names and sizes under other modification times
comparison_redated(archive_base, directory_base) ==
    compare_archive_and_directory(
        archive_path, redated_content(archive_content, archive_base),
        redated_directory(directory, directory_base), include_hidden,
        hash_seed)

Elements(seq) == {seq[i] : i \in 1..Len(seq)}

DateShifts == { <<0, 0>>, <<1, 2>> }

\* C16: a comparison of listings with the same names and sizes and other
\* modification times returns the same identical flag and the same set of
\* differences
C16_DatesDoNotMatter ==
    Compared =>
        \A shift \in DateShifts :
            LET other == comparison_redated(shift[1], shift[2])
            IN  /\ other.identical = result.identical
                /\ Elements(other.differences) = Elements(result.differences)

C16_Witness ==
    /\ Compared
    /\ ReadBoth
    /\ \E i \in 1..Len(result.archive_files) :
       \E j \in 1..Len(result.directory_files) :
          /\ result.archive_files[i].name = result.directory_files[j].name
          /\ result.archive_files[i].size = result.directory_files[j].size
          /\ result.archive_files[i].date < result.directory_files[j].date
          /\ LET other == comparison_redated(1, 2)
             IN  \E k \in 1..Len(other.archive_files) :
                 \E l \in 1..Len(other.directory_files) :
                    /\ other.archive_files[k].name = other.directory_files[l].name
                    /\ other.archive_files[k].date > other.directory_files[l].date
    /\ result.identical
    /\ comparison_redated(1, 2).identical

\* the same comparison made by a process whose hash seed is `seed`
comparison_rerun(seed) ==
    compare_archive_and_directory(archive_path, archive_content, directory,
                                  include_hidden, seed)

\* C17: a second comparison of the unchanged archive and directory, in this
\* or in another run of the program, returns the same differences in the
\* same order
C17_Deterministic ==
    Compared =>
        \A seed \in HashSeeds :
            comparison_rerun(seed).differences = result.differences

Categories ==
    {"Missing in directory: ", "Extra in directory: ", "Size mismatch for "}

\* the name a difference entry is about
name_of(difference) ==
    IF HasKind(difference, "Size mismatch for ")
    THEN SubSeq(difference, 2, Len(difference) - 4)
    ELSE Tail(difference)

\* C18: within each category (Missing, Extra, Size mismatch) the entries
\* of differences are in lexicographic order of their name
C18_SortedWithinCategory ==
    Compared =>
        \A i, j \in 1..Len(result.differences) :
            (/\ i < j
             /\ result.differences[i][1] \in Categories
             /\ result.differences[i][1] = result.differences[j][1])
            => StrLess(name_of(result.differences[i]),
                       name_of(result.differences[j]))

----------------------------------------------------------------------------
(* Properties of the scan *)

ScannedAll == pc = "scanned"

\* the name ends, in any case, in .zip, .rar or .7z
has_archive_extension(name) ==
    \E extension \in { <<".", "z", "i", "p">>, <<".", "r", "a", "r">>,
                       <<".", "7", "z">> } :
        endswith(lower(name), extension)

\* the pairs (file, parent/stem) of a tree: the files that can be stat'ed,
\* in directories that can be listed, named like an archive, next to a
\* directory named by their stem
RECURSIVE candidate_pairs(_, _)
candidate_pairs(tree, root_path) ==
    {<<root_path \o tree.files[i].name, root_path \o stem(tree.files[i].name)>> :
        i \in {k \in 1..Len(tree.files) :
                  /\ tree.files[k].stat = "ok"
                  /\ has_archive_extension(tree.files[k].name)
                  /\ \E d \in 1..Len(tree.dirs) :
                        tree.dirs[d].name = stem(tree.files[k].name)}}
    \cup UNION {IF tree.dirs[d].listable
                THEN candidate_pairs(tree.dirs[d].tree,
                                     root_path \o tree.dirs[d].name \o <<"/">>)
                ELSE {} : d \in 1..Len(tree.dirs)}

\* every entry can be stat'ed and every directory listed
RECURSIVE Healthy(_)
Healthy(tree) ==
    /\ \A i \in 1..Len(tree.files) : tree.files[i].stat = "ok"
    /\ \A d \in 1..Len(tree.dirs) :
          tree.dirs[d].listable /\ Healthy(tree.dirs[d].tree)

\* C19: on a tree without filesystem errors the scan returns, once each,
\* exactly the pairs (file, parent/stem) of the files anywhere in the tree
\* whose name ends in .zip, .rar or .7z in any case and whose parent/stem
\* is a directory
C19_ScanFindsExactlyThePairs ==
    (ScannedAll /\ Healthy(target_dir)) =>
        /\ Elements(potential_duplicates) = candidate_pairs(target_dir, <<>>)
        /\ \A i, j \in 1..Len(potential_duplicates) :
              potential_duplicates[i] = potential_duplicates[j] => i = j

C19_Witness ==
    /\ ScannedAll
    /\ Healthy(target_dir)
    /\ Len(target_dir.files) = MaxEntries
    /\ \E i \in 1..Len(potential_duplicates) :
          potential_duplicates[i]
          = << <<"x", ".", "Z", "I", "P">>, <<"x">> >>
    /\ \E i \in 1..Len(potential_duplicates) :
          potential_duplicates[i]
          = << <<".", "x", "/", "x", ".", "z", "i", "p">>,
               <<".", "x", "/", "x">> >>
    /\ \E i \in 1..Len(target_dir.files) :
          /\ has_archive_extension(target_dir.files[i].name)
          /\ \A k \in 1..Len(potential_duplicates) :
                potential_duplicates[k][1] # target_dir.files[i].name

\* C20: an entry that cannot be stat'ed, or a directory that cannot be
\* listed, does not end the scan: every pair of the rest of the tree,
\* also one met after the failing entry, is returned
C20_ScanSurvivesErrors ==
    ScannedAll =>
        candidate_pairs(target_dir, <<>>) \subseteq Elements(potential_duplicates)

----------------------------------------------------------------------------
(* Properties of DeleteUnpackedCommand.execute *)

\* C1: a directory is removed only after its pair compared identical and
\* the confirmation handler then returned True for it; a pair that did not
\* compare identical is never asked about and never removed
C1_DeleteOnlyIdenticalAndConfirmed ==
    /\ \A k \in removed :
          /\ k <= Len(compared)
          /\ compared[k].identical
          /\ k \in confirmed
    /\ \A k \in 1..Len(compared) :
          ~compared[k].identical => (k \notin asked /\ k \notin removed)
    /\ confirmed \subseteq asked
    /\ \A k \in 1..Len(prompted) : prompted[k] \in asked

C1_Witness ==
    /\ pc = "done"
    /\ Len(potential_pairs) = MaxPairs
    /\ \E k \in removed : compared[k].identical /\ k \in confirmed
    /\ \E k \in 1..Len(compared) : ~compared[k].identical /\ k \notin removed
    /\ deleted_count >= 1

----------------------------------------------------------------------------
(* Properties of FileProcessor under the handler the factory creates *)

\* the files processed so far whose matching rule has a delete action
delete_matches ==
    {k \in 1..Len(file_paths) :
        /\ k < file_index
        /\ FileMatcher_match(file_paths[k]) # None
        /\ FileMatcher_match(file_paths[k]).action.type = "delete"}

\* C7: with never_delete=True and dry_run=False, the action executor is
\* never invoked for a file whose matching rule has a delete action, and
\* the file stays on disk
C7_NeverDeleteSkipsDeleteActions ==
    (config.never_delete /\ ~config.dry_run) =>
        \A k \in delete_matches :
            k \notin executed /\ file_paths[k] \in existing

----------------------------------------------------------------------------
(* Properties of the reader dispatch *)

\* the last Len(extension) characters of name spell extension, in either case
spells(name, extension) ==
    /\ Len(name) >= Len(extension)
    /\ \A i \in 1..Len(extension) :
          LET c == name[Len(name) - Len(extension) + i]
          IN  \/ c = extension[i]
              \/ extension[i] = "z" /\ c = "Z"
              \/ extension[i] = "i" /\ c = "I"
              \/ extension[i] = "p" /\ c = "P"
              \/ extension[i] = "r" /\ c = "R"
              \/ extension[i] = "a" /\ c = "A"

\* C21: the reader is chosen by the extension of the name alone, in either
\* case: a ZIP reader iff the name ends in ".zip", a RAR reader iff it ends
\* in ".rar", a 7Z reader iff it ends in ".7z", and none for any other name
C21_DispatchByExtension ==
    Compared =>
        LET manager == get_archive_manager(archive_path)
        IN  /\ manager = "ZipArchive"
                <=> spells(archive_path, <<".", "z", "i", "p">>)
            /\ manager = "RarArchive"
                <=> spells(archive_path, <<".", "r", "a", "r">>)
            /\ manager = "SevenZipArchive"
                <=> spells(archive_path, <<".", "7", "z">>)
            /\ manager = "None"
                <=> /\ ~spells(archive_path, <<".", "z", "i", "p">>)
                    /\ ~spells(archive_path, <<".", "r", "a", "r">>)
                    /\ ~spells(archive_path, <<".", "7", "z">>)
            /\ (manager = "None" /\ archive_content.kind # "absent")
                   => HasKind(result.differences[1],
                              "Unsupported archive format: ")
            /\ (manager # "None" /\ archive_content.kind # "absent")
                   => \A i \in 1..Len(result.differences) :
                         ~HasKind(result.differences[i],
                                  "Unsupported archive format: ")

\* a ZIP archive named in mixed case was read by the ZIP reader and
\* compared identical
C21_Witness ==
    /\ Compared
    /\ archive_path = <<"x", ".", "Z", "i", "P">>
    /\ get_archive_manager(archive_path) = "ZipArchive"
    /\ archive_content.kind = "ok"
    /\ Len(archive_content.members) = 1
    /\ result.identical
    /\ Len(result.archive_files) = 1

----------------------------------------------------------------------------
(* Properties of InteractiveConfirmationHandler.should_execute *)

\* the delete calls made with a cache key
keyed_delete(i) ==
    /\ calls[i].action_type = "delete"
    /\ calls[i].cache_key # ""

\* call i prompted the user, who answered `answer`
answered(i, answer) == calls[i].prompted /\ calls[i].input = answer

\* C22: after the answer "a" to a delete prompt with cache key k, every
\* later delete call with key k returns True without a prompt; after the
\* answer "never", every later one returns False without a prompt; a call
\* decided without a prompt was decided by an answer given for its own key
C22_CachedAnswersDecideTheirKey ==
    /\ \A i, j \in 1..Len(calls) :
          (/\ i < j
           /\ keyed_delete(i) /\ keyed_delete(j)
           /\ calls[i].cache_key = calls[j].cache_key) =>
              /\ answered(i, "a") =>
                     /\ calls[j].outcome = Returned(TRUE)
                     /\ ~calls[j].prompted
              /\ answered(i, "never") =>
                     /\ calls[j].outcome = Returned(FALSE)
                     /\ ~calls[j].prompted
    /\ \A j \in 1..Len(calls) :
          (calls[j].action_type = "delete" /\ ~calls[j].prompted) =>
              \E i \in 1..(j - 1) :
                  /\ keyed_delete(i)
                  /\ calls[i].cache_key = calls[j].cache_key
                  /\ \/ answered(i, "a") /\ calls[j].outcome = Returned(TRUE)
                     \/ answered(i, "never")
                        /\ calls[j].outcome = Returned(FALSE)

\* "a" for key p, then a prompt for key q answered "never", then key p
\* again, decided True without a prompt
C22_Witness ==
    /\ Len(calls) = 3
    /\ keyed_delete(1) /\ calls[1].cache_key = "p" /\ answered(1, "a")
    /\ keyed_delete(2) /\ calls[2].cache_key = "q" /\ answered(2, "never")
    /\ keyed_delete(3) /\ calls[3].cache_key = "p"
    /\ ~calls[3].prompted
    /\ calls[3].outcome = Returned(TRUE)
    /\ responses["p"] = "a" /\ responses["q"] = "never"

\* the first delete call after call i made with the cache key of call i
next_with_key(i, j) ==
    /\ i < j
    /\ calls[j].action_type = "delete"
    /\ calls[j].cache_key = calls[i].cache_key
    /\ \A m \in (i + 1)..(j - 1) :
          ~(calls[m].action_type = "delete"
            /\ calls[m].cache_key = calls[i].cache_key)

\* C23: the cache only ever holds "a" and "never"; after the answer "y"
\* (typed, or the default of an empty line) or "n" to a delete prompt with
\* key k, the next delete call with key k prompts again
C23_YesAndNoAreNotCached ==
    /\ \A k \in DOMAIN responses : responses[k] \in {"a", "never"}
    /\ \A i, j \in 1..Len(calls) :
          (/\ calls[i].action_type = "delete"
           /\ answered(i, "y") \/ answered(i, "") \/ answered(i, "n")
           /\ next_with_key(i, j)) =>
              calls[j].prompted

\* "y" and then "n" for key p, each at a prompt, while "a" is stored for q
C23_Witness ==
    /\ Len(calls) = 3
    /\ keyed_delete(1) /\ calls[1].cache_key = "q" /\ answered(1, "a")
    /\ keyed_delete(2) /\ calls[2].cache_key = "p" /\ answered(2, "y")
    /\ calls[2].outcome = Returned(TRUE)
    /\ keyed_delete(3) /\ calls[3].cache_key = "p" /\ answered(3, "n")
    /\ calls[3].outcome = Returned(FALSE)
    /\ DOMAIN responses = {"q"}

----------------------------------------------------------------------------
(* Properties of an interactive delete-unpacked run *)

\* the pair the k-th should_execute call of the run was made for
asked_pair(k) ==
    CHOOSE i \in asked : Cardinality({j \in asked : j < i}) = k - 1

\* rmtree was called for the pair, or is the next step of the loop
deleted_or_deleting(i) ==
    \/ i \in removed
    \/ pc = "delete" /\ pair_index = i

\* C24: in an interactive run, after the answer "a" to the prompt for one
\* identical pair every later identical pair is deleted with no further
\* prompt; after the answer "never" no further prompt is shown and no
\* further directory is deleted
C24_OneAnswerForTheWholeRun ==
    confirmation_handler = InteractiveConfirmationHandler =>
        \A i, j \in 1..Len(calls) :
            i < j =>
                /\ answered(i, "a") =>
                       /\ ~calls[j].prompted
                       /\ calls[j].outcome = Returned(TRUE)
                       /\ deleted_or_deleting(asked_pair(j))
                /\ answered(i, "never") =>
                       /\ ~calls[j].prompted
                       /\ calls[j].outcome = Returned(FALSE)
                       /\ asked_pair(j) \notin removed

----------------------------------------------------------------------------
(* Properties of DeleteUnpackedCommand.execute under exceptions *)

\* the comparison execute makes for the i-th pair
comparison_of(i) ==
    compare_archive_and_directory(
        potential_pairs[i].archive_path, potential_pairs[i].archive_content,
        potential_pairs[i].directory, include_hidden, hash_seed)

\* the archive of the pair could not be read: the reader raised
comparing_raised(i) ==
    /\ potential_pairs[i].archive_content.kind = "unreadable"
    /\ HasKind(comparison_of(i).differences[1], "Comparison failed: ")

\* C25: a pair whose comparison or deletion raised does not end the run:
\* unless the user interrupts a prompt, execute ends after comparing every
\* pair in order, with one logged error for each pair that left no result,
\* and with the summary as its last report; a run that ends with an
\* exception ends before its first pair, for an attribute its
\* configuration object lacks
C25_BadPairDoesNotAbort ==
    /\ (pc = "done" /\ potential_pairs # <<>>) =>
          /\ Len(compared) = Len(potential_pairs)
          /\ \A i \in 1..Len(potential_pairs) : compared[i] = comparison_of(i)
          /\ Len(all_results) + Occurrences(logged, "Error comparing")
             = Len(potential_pairs)
          /\ logged[Len(logged)] = "Summary"
    /\ pc = "cancelled" =>
          /\ calls # <<>>
          /\ calls[Len(calls)].outcome = Raised("KeyboardInterrupt")
    /\ pc = "raised" =>
          /\ ~hasattr(config, "execution_mode") \/ ~hasattr(config, "quiet")
          /\ compared = <<>>

\* the reader of the first pair raised, the rmtree of the second raised,
\* and the run ended with the summary
C25_Witness ==
    /\ pc = "done"
    /\ Len(potential_pairs) = 2
    /\ comparing_raised(1)
    /\ compared[1] = comparison_of(1)
    /\ 2 \in removed
    /\ deleted_count = 0
    /\ all_results = <<compared[1]>>
    /\ logged = <<"Error comparing", "Summary">>

----------------------------------------------------------------------------
(* Properties of ActionExecutor.execute_action *)

\* the action execute_action was invoked with for the k-th file
action_of(k) == FileMatcher_match(file_paths[k]).action

\* the move or compress action of the k-th file was valid and took effect
move_or_compress_succeeded(k) ==
    /\ action_of(k).type \in {"move", "compress"}
    /\ action_of(k).target # ""
    /\ file_paths[k] \notin existing

\* C26: execute_action returns the final path, not None, when a valid move
\* or compress action succeeded, and None when the action is a delete, is
\* invalid, is skipped or fails
C26_ReturnsFinalPath ==
    \A k \in DOMAIN final_paths :
        /\ move_or_compress_succeeded(k) => final_paths[k] # None
        /\ ~move_or_compress_succeeded(k) => final_paths[k] = None

----------------------------------------------------------------------------
(* Properties of get_comparison_summary *)

\* the natural number a sequence of bits writes
RECURSIVE bits_value(_)
bits_value(bits) ==
    IF bits = <<>> THEN 0
    ELSE 2 * bits_value(SubSeq(bits, 1, Len(bits) - 1)) + bits[Len(bits)]

\* the double x, at least 1, is n / d up to the rounding of two operations:
\* |x - n/d| <= (n/d) * 2^-51, that is, with M the significand and e the
\* exponent of x, |M * d * 2^e - n * 2^52| <= 2 * n.  The products are
\* computed in pieces of 18 bits.
is_rounded_quotient(x, n, d) ==
    /\ Len(x.significand) = MANT_DIG
    /\ x.significand[1] = 1
    /\ x.exponent >= 0
    /\ LET piece == 262144
           scale == d * (2 ^ x.exponent)
           high == bits_value(SubSeq(x.significand, 1, 17))
           mid == bits_value(SubSeq(x.significand, 18, 35))
           low == bits_value(SubSeq(x.significand, 36, 53))
           p0 == low * scale
           p1 == mid * scale + (p0 \div piece)
           p2 == high * scale + (p1 \div piece)
           top == p2 - n * 65536
       IN  \/ top = 0 /\ p1 % piece = 0 /\ p0 % piece <= 2 * n
           \/ top = -1 /\ p1 % piece = piece - 1
                       /\ piece - (p0 % piece) <= 2 * n

\* C27: the summary of a list of results counts every result once:
\* total_comparisons is their number, identical the number of identical
\* ones, different the rest, and identical_percentage is 0 for no results
\* and identical * 100 / total_comparisons otherwise, as a double: 0.0 when
\* no result is identical, and else the quotient up to the rounding of the
\* division and the multiplication
C27_SummaryCounts ==
    summary # NoResult =>
        LET identical_results ==
                {i \in 1..Len(all_results) : all_results[i].identical}
            different_results ==
                {i \in 1..Len(all_results) : ~all_results[i].identical}
        IN  /\ summary.total_comparisons = Len(all_results)
            /\ summary.identical = Cardinality(identical_results)
            /\ summary.different = Cardinality(different_results)
            /\ summary.identical + summary.different
               = summary.total_comparisons
            /\ all_results = <<>> => summary.identical_percentage = 0
            /\ all_results # <<>> /\ identical_results = {} =>
                   summary.identical_percentage = ZeroFloat
            /\ all_results # <<>> /\ identical_results # {} =>
                   is_rounded_quotient(summary.identical_percentage,
                                       summary.identical * 100,
                                       summary.total_comparisons)

\* a summary of one identical and two different results: 33.33333333333333,
\* the double 0x10AAAAAAAAAAAA * 2^-47, one unit of the last place below
\* the double nearest 100 / 3
C27_Witness ==
    /\ pc = "summarized"
    /\ Len(all_results) = 3
    /\ all_results[1].identical
    /\ ~all_results[2].identical
    /\ ~all_results[3].identical
    /\ summary.total_comparisons = 3
    /\ summary.identical = 1
    /\ summary.different = 2
    /\ summary.identical_percentage
       = Float(<<1, 0, 0, 0, 0>>
               \o [i \in 1..48 |-> IF i % 2 = 1 THEN 1 ELSE 0], 5)

----------------------------------------------------------------------------
(* Properties of the date normalization of File *)

\* datetime.date(year, month, day).toordinal(): days since 0001-01-01
RECURSIVE days_before_month(_, _)
days_before_month(year, month) ==
    IF month = 1 THEN 0
    ELSE days_before_month(year, month - 1) + days_in_month(year, month - 1)

toordinal(d) ==
    LET y == d.year - 1
    IN  y * 365 + (y \div 4) - (y \div 100) + (y \div 400)
        + days_before_month(d.year, d.month) + d.day

\* C28: for a year in 1970..9999 and a month in 1..12 the normalized date
\* is the calendar date (day - 1) days after the 1st of that month, for
\* any day: day 0 of January is 31 December of the year before
C28_DayCarriesIntoAdjacentMonths ==
    pc = "constructed" =>
        /\ ~IsRaised(file_date)
        /\ toordinal(file_date.returned)
           = toordinal(Date(file_date_tuple[1], file_date_tuple[2], 1))
             + file_date_tuple[3] - 1

----------------------------------------------------------------------------
(* Properties of an identical result *)

\* no two entries of the list have the same NFC name
distinct_names(files) ==
    \A i, j \in 1..Len(files) :
        normalize_unicode(files[i].name) = normalize_unicode(files[j].name)
            => i = j

\* C29: an identical result accounts for every member: the kept archive
\* members and the directory entries correspond one to one by NFC name
\* with equal sizes, so neither list repeats a name and both have the
\* same length
C29_IdenticalAccountsForEveryMember ==
    (Compared /\ result.identical) =>
        /\ distinct_names(result.archive_files)
        /\ distinct_names(result.directory_files)
        /\ Len(result.archive_files) = Len(result.directory_files)
        /\ \A i \in 1..Len(result.archive_files) :
              \E j \in 1..Len(result.directory_files) :
                  /\ normalize_unicode(result.archive_files[i].name)
                     = normalize_unicode(result.directory_files[j].name)
                  /\ result.archive_files[i].size
                     = result.directory_files[j].size

----------------------------------------------------------------------------
(* Properties of a cancelled delete-unpacked run *)

\* the handler printed "Operation cancelled by user." during call k: the
\* prompt ended with EOFError or KeyboardInterrupt
cancelled_at(k) ==
    /\ calls[k].prompted
    /\ IsRaised(calls[k].outcome)

\* C30: once a prompt of an interactive run ended with end-of-input or an
\* interrupt, the run is cancelled: no later pair is compared or prompted
\* for and no directory is deleted afterwards
C30_EndOfInputCancelsTheRun ==
    \A k \in 1..Len(calls) :
        cancelled_at(k) =>
            /\ k = Len(calls)
            /\ Len(compared) = asked_pair(k)
            /\ \A i \in removed : i < asked_pair(k)

====
